---------------------------- MODULE Spec2Model ----------------------------
(***************************************************************************)
(* StampedeShield risk-fusion core: PassageDetector, ZoneDetector and      *)
(* SurgeEngine as state machines driven by timestamped readings.           *)
(*                                                                         *)
(* Times are integers in milliseconds.  An Optional[float] field is the    *)
(* empty sequence (None) or a one-element sequence <<t>>.                  *)
(***************************************************************************)
EXTENDS Integers, Sequences, FiniteSets, TLC

VARIABLES
  \* ---- PassageDetector (python/processors/passage_detector.py) ----
  pd_state,                \* self.state
  pd_passage_count,        \* self.passage_count
  pd_passage_timestamps,   \* self.passage_timestamps (ms)
  pd_last_distance,        \* self.last_distance
  pd_close_start_time,     \* self.close_start_time
  pd_far_start_time,       \* self.far_start_time
  pd_cooldown_start_time,  \* self.cooldown_start_time
  pd_total_approaches,     \* self.total_approaches
  pd_false_approaches,     \* self.false_approaches
  pd_event,                \* result["event"] of the last process_reading
  pd_now,                  \* ts_ms of the last process_reading
  pd_flow_rate,            \* result["flow_rate"] of the last process_reading (passages per minute)
  \* history of the distance stream fed to the PassageDetector
  pd_allAbove,             \* every reading so far was above PASSAGE_THRESHOLD
  pd_dipStart,             \* ts of the first reading of the current run below PASSAGE_THRESHOLD
  pd_dipReady,             \* that run began with the detector in BASELINE or APPROACH
  pd_dipCount,             \* passages counted during that run
  pd_farStart,             \* ts of the first reading of the current run above RETURN_THRESHOLD
  pd_cooldowns,            \* number of COOLDOWN periods entered since the last counted passage
  pd_resets,               \* number of reset() calls
  pd_wiped,                \* total_approaches at the last reset() call
  \* ---- ZoneDetector (python/processors/zone_detector.py) ----
  zd_state,                \* self.state
  zd_pending_state,        \* self.pending_state ("None" or a ZoneState)
  zd_pending_start_time,   \* self.pending_start_time
  zd_last_distance,        \* self.last_distance
  zd_last_pir,             \* self.last_pir
  zd_last_timestamp,       \* self.last_timestamp (ms)
  zd_previous_state,       \* previous_state of the last process_reading
  \* history of the readings fed to the ZoneDetector
  zd_runTarget,            \* target state of the last reading
  zd_runStart,             \* ts of the first reading of the current run of equal targets
  zd_prevBelow,            \* side of ZONE_CROWDED_DIST of the last reading
  zd_altLen,               \* readings since the fed stream began to alternate sides (capped)
  zd_anchor,               \* committed state when the alternation began
  zd_altOcc,               \* the alternation held a motion-confirmed mid-range reading
                           \* while the committed state was not OCCUPIED
  \* ---- SurgeEngine (python/engine/surge_engine.py) ----
  se_config,               \* self.config
  se_state,                \* self.state
  se_pending_state,        \* self.pending_state ("None" or a SystemState)
  se_pending_start_time,   \* self.pending_start_time
  se_current_risk,         \* self.current_risk, in 1/6000
  se_component_risks,      \* self.component_risks, each in 1/600
  se_zone_states,          \* self.zone_states
  se_last_data,            \* self.last_data
  se_now,                  \* time.time() of the last process_sensor_data (ms)
  \* history of the calls made to the SurgeEngine
  se_runTarget,            \* target state of the last call
  se_runStart,             \* time of the first call of the current run of equal targets
  se_prevState,            \* committed state before the last call
  se_aboveStart,           \* time of the first of the latest calls whose target was above the committed state
  \* ---- a second, fresh SurgeEngine fed the same sensor data as the first ----
  se2_state,               \* its self.state
  se2_pending_state,       \* its self.pending_state
  se2_pending_start_time,  \* its self.pending_start_time
  se2_now,                 \* time.time() of its last process_sensor_data (ms)
  \* ---- AlertManager (python/engine/alert_manager.py), times in seconds ----
  am_config,               \* self.config
  am_alert_history,        \* self.alert_history
  am_last_alert_time,      \* self.last_alert_time (alert_type -> time of last emitted alert)
  am_alerts_this_minute,   \* self.alerts_this_minute
  am_handlers,             \* self.handlers
  am_total_alerts,         \* self.total_alerts
  am_suppressed_alerts,    \* self.suppressed_alerts
  am_result,               \* what the last trigger_alert returned ("None" before the first)
  am_dispatch,             \* what _dispatch_alert did in the last trigger_alert
  am_now,                  \* time.time() of the last trigger_alert
  \* history of the calls made to the AlertManager
  am_calls,                \* number of trigger_alert calls
  am_lastLevel,            \* level of the last trigger_alert
  am_lastType,             \* alert_type of the last trigger_alert
  am_emitted,              \* the alerts for which trigger_alert went past both checks
  am_changes,              \* number of process_state_change calls
  am_change,               \* the last process_state_change: old and new state, level it alerted with
  am_sinceReset,           \* number of trigger_alert calls since construction or the last reset()
  am_resets,               \* number of reset() and clear_history() calls
  \* ---- ClusterDetector (python/processors/cluster_detector.py), lengths in cm ----
  cd_grid,                 \* self.grid, as a function of the cell <<row, col>>
  cd_clusters,             \* self.clusters
  \* history of the calls made to the ClusterDetector
  cd_positions,            \* the list handed to the last update
  cd_hadClusters,          \* the update before the last one left a cluster
  \* ---- DeviceTracker (python/processors/device_tracker.py), times in seconds ----
  dt_node_data,            \* self.node_data (node id -> count, timestamp, age)
  dt_count_history,        \* self.count_history
  dt_peak_count,           \* self.peak_count
  dt_total_updates,        \* self.total_updates
  dt_now,                  \* time.time() of the last update_scan
  dt_zone_counts,          \* what the last get_zone_counts returned (<< >> before the first)
  dt_positions,            \* what the last get_estimated_positions returned: <<x, y>> in cm
  dt_lastCall,             \* history: the method called last ("None" before the first call)
  \* ---- UDPReceiver (python/udp_receiver.py), times in ms ----
  ur_latest_data,          \* self.latest_data (node id -> packet)
  ur_last_seen_time,       \* self.last_seen_time (node id -> time)
  ur_lock,                 \* self.lock: "free" or the thread that holds it
  ur_data_queue,           \* self.data_queue
  ur_now,                  \* time.time()
  \* the listener thread, inside _process_data
  ur_l_pc,                 \* where it stands
  ur_l_data,               \* the packet being processed
  ur_l_time,               \* its current_time
  \* a reader thread, inside get_latest or get_all_latest
  ur_r_pc,                 \* where it stands
  ur_r_op,                 \* the method it is in or has last returned from
  ur_r_node,               \* the node_id of get_latest
  ur_r_time,               \* the time.time() it has read
  ur_r_todo,               \* get_all_latest: the nodes still to visit
  ur_r_result,             \* what it returns: node id -> data, with the last-seen time it was checked against
  \* history of the UDPReceiver
  ur_sent,                 \* number of packets received so far
  ur_seen_offline,         \* nodes a finished read has found timed out
  \* start(), stop() and the loop of the listener thread
  ur_class,                \* the class: "udp_receiver" (python/udp_receiver.py) or "ingestion" (python/ingestion/udp_receiver.py)
  ur_running,              \* self.running
  ur_thread,               \* self.thread: "None", or the thread "alive" or "terminated"
  ur_socket,               \* self.socket: "None", "open" (bound, 1 s timeout), "unbound" or "closed"
  ur_callbacks,            \* self.callbacks: what a call of each does, "returns" or "raises"
  ur_l_cb,                 \* the listener in the callback loop: index of the next callback
  ur_s_pc,                 \* the thread that calls start() and stop(): where it stands
  ur_started,              \* history: start() has succeeded
  ur_bad,                  \* history: number of packets received that were malformed or had no id
  \* ---- the risk-to-state mappings applied to two risk scores (1/6000) ----
  rs_risk,                 \* the two risk scores
  rs_state,                \* SurgeEngine._risk_to_state of each ("None" before the call)
  rs_index,                \* state_index of config.get_state_from_risk of each
  \* ---- a detector that is reset, beside a newly constructed one fed the same readings ----
  rv_class,                \* the class exercised: PassageDetector, ZoneDetector or SurgeEngine ("None": no such run)
  rv_resets,               \* number of reset() calls made
  rv_wiped,                \* the state the instance was in when reset() was called
  zd2_state,               \* self.state of the newly constructed ZoneDetector
  zd2_pending_state,       \* its self.pending_state
  zd2_pending_start_time   \* its self.pending_start_time

pd_code == <<pd_state, pd_passage_count, pd_passage_timestamps, pd_last_distance,
             pd_close_start_time, pd_far_start_time, pd_cooldown_start_time,
             pd_total_approaches, pd_false_approaches, pd_event, pd_now,
             pd_flow_rate>>
pd_hist == <<pd_allAbove, pd_dipStart, pd_dipReady, pd_dipCount, pd_farStart, pd_cooldowns,
             pd_resets, pd_wiped>>
pd_vars == <<pd_code, pd_hist>>

zd_code == <<zd_state, zd_pending_state, zd_pending_start_time, zd_last_distance,
             zd_last_pir, zd_last_timestamp, zd_previous_state>>
zd_hist == <<zd_runTarget, zd_runStart, zd_prevBelow, zd_altLen, zd_anchor, zd_altOcc>>
zd_vars == <<zd_code, zd_hist>>

se_code == <<se_config, se_state, se_pending_state, se_pending_start_time, se_current_risk,
             se_component_risks, se_zone_states, se_last_data, se_now>>
se_hist == <<se_runTarget, se_runStart, se_prevState, se_aboveStart>>
se_vars == <<se_code, se_hist>>

am_code == <<am_config, am_alert_history, am_last_alert_time, am_alerts_this_minute,
             am_handlers, am_total_alerts, am_suppressed_alerts, am_result,
             am_dispatch, am_now>>
am_hist == <<am_calls, am_lastLevel, am_lastType, am_emitted, am_changes, am_change,
             am_sinceReset, am_resets>>
am_vars == <<am_code, am_hist>>

se2_vars == <<se2_state, se2_pending_state, se2_pending_start_time, se2_now>>

cd_code == <<cd_grid, cd_clusters>>
cd_hist == <<cd_positions, cd_hadClusters>>
cd_vars == <<cd_code, cd_hist>>

dt_code == <<dt_node_data, dt_count_history, dt_peak_count, dt_total_updates, dt_now>>
dt_results == <<dt_zone_counts, dt_positions>>
dt_vars == <<dt_code, dt_results, dt_lastCall>>

ur_shared == <<ur_latest_data, ur_last_seen_time, ur_lock, ur_data_queue>>
ur_listener == <<ur_l_pc, ur_l_data, ur_l_time>>
ur_reader == <<ur_r_pc, ur_r_op, ur_r_node, ur_r_time, ur_r_todo, ur_r_result>>
ur_hist == <<ur_sent, ur_seen_offline>>
ur_life == <<ur_class, ur_running, ur_thread, ur_socket, ur_callbacks, ur_l_cb, ur_s_pc,
             ur_started, ur_bad>>
ur_vars == <<ur_shared, ur_listener, ur_reader, ur_now, ur_hist, ur_life>>

rs_vars == <<rs_risk, rs_state, rs_index>>

zd2_vars == <<zd2_state, zd2_pending_state, zd2_pending_start_time>>
rv_vars == <<rv_class, rv_resets, rv_wiped, zd2_vars>>

vars == <<pd_vars, zd_vars, se_vars, se2_vars, am_vars, cd_vars, dt_vars, ur_vars, rs_vars, rv_vars>>

None == << >>
Some(t) == <<t>>
Val(o) == o[1]

(***************************************************************************)
(* PassageDetector                                                         *)
(***************************************************************************)
PASSAGE_THRESHOLD == 50
PRESENCE_THRESHOLD == 150
MIN_PASSAGE_DURATION == 200
PASSAGE_COOLDOWN == 800
BASELINE_DISTANCE == 300
RETURN_THRESHOLD == 150
RETURN_DURATION == 500

\* bounds of the explored runs
PD_MaxTime == 2600
PD_Distances == {40, 50, 100, 150, 300}
PD_Steps == {0, 100, 200}

PDInit ==
  /\ pd_state = "BASELINE"
  /\ pd_passage_count = 0
  /\ pd_passage_timestamps = << >>
  /\ pd_last_distance = BASELINE_DISTANCE
  /\ pd_close_start_time = None
  /\ pd_far_start_time = None
  /\ pd_cooldown_start_time = None
  /\ pd_total_approaches = 0
  /\ pd_false_approaches = 0
  /\ pd_event = "None"
  /\ pd_now = 0
  /\ pd_flow_rate = 0
  /\ pd_allAbove = TRUE
  /\ pd_dipStart = None
  /\ pd_dipReady = FALSE
  /\ pd_dipCount = 0
  /\ pd_farStart = None
  /\ pd_cooldowns = 0
  /\ pd_resets = 0
  /\ pd_wiped = 0

\* _change_state: sets the state and clears close_start_time only.
\* The callers below fold it in: state' and close_start_time' = None.

\* _register_passage
register_passage(ts_ms) ==
  /\ pd_passage_count' = pd_passage_count + 1
  /\ pd_passage_timestamps' = Append(pd_passage_timestamps, ts_ms)

process_baseline(distance, ts_ms) ==
  IF distance < PRESENCE_THRESHOLD
  THEN /\ pd_state' = "APPROACH"
       /\ pd_close_start_time' = None
       /\ pd_total_approaches' = pd_total_approaches + 1
       /\ pd_event' = "APPROACH"
       /\ UNCHANGED <<pd_passage_count, pd_passage_timestamps, pd_far_start_time,
                      pd_cooldown_start_time, pd_false_approaches>>
  ELSE /\ pd_event' = "None"
       /\ UNCHANGED <<pd_state, pd_close_start_time, pd_total_approaches,
                      pd_passage_count, pd_passage_timestamps, pd_far_start_time,
                      pd_cooldown_start_time, pd_false_approaches>>

\* _process_approach, branch "distance < passage_threshold": the close timer
\* starts on the first close reading; far_start_time is left as it is.
approach_close(distance, ts_ms) ==
  LET close == IF pd_close_start_time = None THEN ts_ms ELSE Val(pd_close_start_time)
  IN  IF ts_ms - close >= MIN_PASSAGE_DURATION
      THEN /\ register_passage(ts_ms)
           /\ pd_state' = "PASSAGE"
           /\ pd_close_start_time' = None
           /\ pd_event' = "PASSAGE"
           /\ UNCHANGED <<pd_far_start_time, pd_cooldown_start_time,
                          pd_total_approaches, pd_false_approaches>>
      ELSE /\ pd_close_start_time' = Some(close)
           /\ pd_event' = "None"
           /\ UNCHANGED <<pd_state, pd_passage_count, pd_passage_timestamps,
                          pd_far_start_time, pd_cooldown_start_time,
                          pd_total_approaches, pd_false_approaches>>

\* _process_approach, else branch after the close timer is dealt with:
\* "Check if returning to baseline".
approach_far(distance, ts_ms) ==
  /\ UNCHANGED <<pd_passage_count, pd_passage_timestamps, pd_cooldown_start_time,
                 pd_total_approaches>>
  /\ IF distance > RETURN_THRESHOLD
     THEN LET far == IF pd_far_start_time = None THEN ts_ms ELSE Val(pd_far_start_time)
          IN  IF ts_ms - far >= RETURN_DURATION
              THEN /\ pd_state' = "BASELINE"
                   /\ pd_false_approaches' = pd_false_approaches + 1
                   /\ pd_event' = "CLEAR"
                   /\ pd_far_start_time' = None
              ELSE /\ pd_far_start_time' = Some(far)
                   /\ pd_event' = "None"
                   /\ UNCHANGED <<pd_state, pd_false_approaches>>
     ELSE /\ pd_far_start_time' = None
          /\ pd_event' = "None"
          /\ UNCHANGED <<pd_state, pd_false_approaches>>

\* fault model: the close branch is taken below PRESENCE_THRESHOLD
process_approach_presence(distance, ts_ms) ==
  IF distance < PRESENCE_THRESHOLD
  THEN approach_close(distance, ts_ms)
  ELSE pd_close_start_time' = None /\ approach_far(distance, ts_ms)

\* fault model: the close timer survives a reading at or above PASSAGE_THRESHOLD
process_approach_keep_close(distance, ts_ms) ==
  IF distance < PASSAGE_THRESHOLD
  THEN approach_close(distance, ts_ms)
  ELSE UNCHANGED pd_close_start_time /\ approach_far(distance, ts_ms)

process_approach(distance, ts_ms) ==
  IF distance < PASSAGE_THRESHOLD
  THEN approach_close(distance, ts_ms)
  ELSE pd_close_start_time' = None /\ approach_far(distance, ts_ms)

process_passage(distance, ts_ms) ==
  /\ pd_event' = "None"
  /\ UNCHANGED <<pd_passage_count, pd_passage_timestamps, pd_total_approaches,
                 pd_false_approaches>>
  /\ IF distance > RETURN_THRESHOLD
     THEN LET far == IF pd_far_start_time = None THEN ts_ms ELSE Val(pd_far_start_time)
          IN  IF ts_ms - far >= RETURN_DURATION
              THEN /\ pd_state' = "COOLDOWN"
                   /\ pd_close_start_time' = None
                   /\ pd_cooldown_start_time' = Some(ts_ms)
                   /\ pd_far_start_time' = None
              ELSE /\ pd_far_start_time' = Some(far)
                   /\ UNCHANGED <<pd_state, pd_close_start_time, pd_cooldown_start_time>>
     ELSE /\ pd_far_start_time' = None
          /\ UNCHANGED <<pd_state, pd_close_start_time, pd_cooldown_start_time>>

\* fault model: the cooldown ends only when more than PASSAGE_COOLDOWN went by
process_cooldown_late(distance, ts_ms) ==
  /\ UNCHANGED <<pd_passage_count, pd_passage_timestamps, pd_total_approaches,
                 pd_false_approaches, pd_far_start_time>>
  /\ IF /\ pd_cooldown_start_time # None
        /\ ts_ms - Val(pd_cooldown_start_time) > PASSAGE_COOLDOWN
     THEN /\ pd_state' = "BASELINE"
          /\ pd_close_start_time' = None
          /\ pd_cooldown_start_time' = None
          /\ pd_event' = "CLEAR"
     ELSE /\ pd_event' = "None"
          /\ UNCHANGED <<pd_state, pd_close_start_time, pd_cooldown_start_time>>

process_cooldown(distance, ts_ms) ==
  /\ UNCHANGED <<pd_passage_count, pd_passage_timestamps, pd_total_approaches,
                 pd_false_approaches, pd_far_start_time>>
  /\ IF /\ pd_cooldown_start_time # None
        /\ ts_ms - Val(pd_cooldown_start_time) >= PASSAGE_COOLDOWN
     THEN /\ pd_state' = "BASELINE"
          /\ pd_close_start_time' = None
          /\ pd_cooldown_start_time' = None
          /\ pd_event' = "CLEAR"
     ELSE /\ pd_event' = "None"
          /\ UNCHANGED <<pd_state, pd_close_start_time, pd_cooldown_start_time>>

\* window_seconds of get_flow_rate, in ms
FLOW_WINDOW == 60000

\* get_flow_rate with time.time() = now: the passages recorded so far whose
\* time is not before now - window_seconds; (recent / 60) * 60 per minute
get_flow_rate(now) ==
  Cardinality({i \in 1..Len(pd_passage_timestamps) :
                 pd_passage_timestamps[i] >= now - FLOW_WINDOW})

\* process_reading; the caller passes the current time as timestamp, and the
\* flow rate of the result is taken before the state machine runs
PassageDetector_process_reading(distance, ts_ms) ==
  /\ pd_last_distance' = distance
  /\ pd_now' = ts_ms
  /\ pd_flow_rate' = get_flow_rate(ts_ms)
  /\ CASE pd_state = "BASELINE" -> process_baseline(distance, ts_ms)
       [] pd_state = "APPROACH" -> process_approach(distance, ts_ms)
       [] pd_state = "PASSAGE"  -> process_passage(distance, ts_ms)
       [] pd_state = "COOLDOWN" -> process_cooldown(distance, ts_ms)

\* what the fed distance stream looked like (not program state)
PDHistory(distance, ts_ms) ==
  /\ pd_allAbove' = (pd_allAbove /\ distance > PASSAGE_THRESHOLD)
  /\ pd_dipStart' = IF distance < PASSAGE_THRESHOLD
                    THEN (IF pd_dipStart = None THEN Some(ts_ms) ELSE pd_dipStart)
                    ELSE None
  /\ pd_dipReady' = IF distance < PASSAGE_THRESHOLD
                    THEN (IF pd_dipStart = None
                          THEN pd_state \in {"BASELINE", "APPROACH"}
                          ELSE pd_dipReady)
                    ELSE FALSE
  /\ pd_dipCount' = IF distance < PASSAGE_THRESHOLD
                    THEN (IF pd_dipStart = None THEN 0 ELSE pd_dipCount)
                         + (pd_passage_count' - pd_passage_count)
                    ELSE 0
  /\ pd_farStart' = IF distance > RETURN_THRESHOLD
                    THEN (IF pd_farStart = None THEN Some(ts_ms) ELSE pd_farStart)
                    ELSE None
  /\ pd_cooldowns' = IF pd_passage_count' # pd_passage_count THEN 0
                     ELSE IF pd_state' = "COOLDOWN" /\ pd_state # "COOLDOWN"
                          THEN pd_cooldowns + 1
                          ELSE pd_cooldowns

PDReading ==
  \E distance \in PD_Distances, dt \in PD_Steps :
    /\ pd_now + dt <= PD_MaxTime
    /\ PassageDetector_process_reading(distance, pd_now + dt)
    /\ PDHistory(distance, pd_now + dt)
    /\ UNCHANGED <<pd_resets, pd_wiped>>

\* fault model: reset() leaves total_approaches as it is
PassageDetector_reset_keep_approaches ==
  /\ pd_state' = "BASELINE"
  /\ pd_passage_count' = 0
  /\ pd_passage_timestamps' = << >>
  /\ pd_false_approaches' = 0
  /\ pd_close_start_time' = None
  /\ pd_far_start_time' = None
  /\ pd_cooldown_start_time' = None
  /\ pd_last_distance' = BASELINE_DISTANCE
  /\ UNCHANGED pd_total_approaches

\* reset
PassageDetector_reset ==
  /\ pd_state' = "BASELINE"
  /\ pd_passage_count' = 0
  /\ pd_passage_timestamps' = << >>
  /\ pd_total_approaches' = 0
  /\ pd_false_approaches' = 0
  /\ pd_close_start_time' = None
  /\ pd_far_start_time' = None
  /\ pd_cooldown_start_time' = None
  /\ pd_last_distance' = BASELINE_DISTANCE

\* bound of the explored runs with reset()
PD_MaxResets == 1

\* a reset() call; the history of the distance stream starts again
PDReset ==
  /\ pd_resets < PD_MaxResets
  /\ PassageDetector_reset
  /\ pd_resets' = pd_resets + 1
  /\ pd_wiped' = pd_total_approaches
  /\ pd_allAbove' = TRUE
  /\ pd_dipStart' = None
  /\ pd_dipReady' = FALSE
  /\ pd_dipCount' = 0
  /\ pd_farStart' = None
  /\ pd_cooldowns' = 0
  /\ UNCHANGED <<pd_event, pd_now, pd_flow_rate>>

(***************************************************************************)
(* ZoneDetector                                                            *)
(***************************************************************************)
ZONE_CLEAR_DIST == 200
ZONE_CROWDED_DIST == 80
CLEAR_CONFIRM_TIME == 2000
CROWDED_CONFIRM_TIME == 1000

\* bounds of the explored runs
ZD_MaxTime == 6000
ZD_AltCap == 3
ZD_Distances == {70, 80, 150, 200}
ZD_Steps == {0, 500, 1000}

ZDInit ==
  /\ zd_state = "CLEAR"
  /\ zd_pending_state = "None"
  /\ zd_pending_start_time = None
  /\ zd_last_distance = 400
  /\ zd_last_pir = 0
  /\ zd_last_timestamp = 0
  /\ zd_previous_state = "CLEAR"
  /\ zd_runTarget = "None"
  /\ zd_runStart = None
  /\ zd_prevBelow = "None"
  /\ zd_altLen = 0
  /\ zd_anchor = "CLEAR"
  /\ zd_altOcc = FALSE

\* fault model: a close but motionless reading promotes a CLEAR zone to OCCUPIED
determine_target_state_promote(distance, pir) ==
  IF distance < ZONE_CROWDED_DIST THEN "CROWDED"
  ELSE IF distance < ZONE_CLEAR_DIST /\ pir = 1 THEN "OCCUPIED"
  ELSE IF distance >= ZONE_CLEAR_DIST THEN "CLEAR"
  ELSE IF zd_state = "CLEAR" THEN "OCCUPIED"
  ELSE zd_state

determine_target_state(distance, pir) ==
  IF distance < ZONE_CROWDED_DIST THEN "CROWDED"
  ELSE IF distance < ZONE_CLEAR_DIST /\ pir = 1 THEN "OCCUPIED"
  ELSE IF distance >= ZONE_CLEAR_DIST THEN "CLEAR"
  ELSE IF zd_state = "CLEAR" THEN "CLEAR"
  ELSE zd_state

\* confirm_times[target_state]
confirm_times(target_state) ==
  CASE target_state = "CLEAR"    -> CLEAR_CONFIRM_TIME
    [] target_state = "CROWDED"  -> CROWDED_CONFIRM_TIME
    [] target_state = "OCCUPIED" -> 0

\* fault model: a target equal to the committed state leaves the pending timer running
apply_confirmation_keep_pending(target_state, timestamp) ==
  IF target_state = zd_state
  THEN [state |-> zd_state, pending_state |-> zd_pending_state,
        pending_start_time |-> zd_pending_start_time]
  ELSE IF confirm_times(target_state) = 0
  THEN [state |-> target_state, pending_state |-> "None", pending_start_time |-> None]
  ELSE IF target_state # zd_pending_state
  THEN [state |-> zd_state, pending_state |-> target_state,
        pending_start_time |-> Some(timestamp)]
  ELSE IF /\ zd_pending_start_time # None
          /\ timestamp - Val(zd_pending_start_time) >= confirm_times(target_state)
  THEN [state |-> target_state, pending_state |-> "None", pending_start_time |-> None]
  ELSE [state |-> zd_state, pending_state |-> zd_pending_state,
        pending_start_time |-> zd_pending_start_time]

\* fault model: a pending timer is started only when none is running, so a different
\* target inherits the running timer
apply_confirmation_inherit(target_state, timestamp) ==
  IF target_state = zd_state
  THEN [state |-> zd_state, pending_state |-> "None", pending_start_time |-> None]
  ELSE IF confirm_times(target_state) = 0
  THEN [state |-> target_state, pending_state |-> "None", pending_start_time |-> None]
  ELSE IF zd_pending_state = "None"
  THEN [state |-> zd_state, pending_state |-> target_state,
        pending_start_time |-> Some(timestamp)]
  ELSE IF /\ zd_pending_start_time # None
          /\ timestamp - Val(zd_pending_start_time) >= confirm_times(target_state)
  THEN [state |-> target_state, pending_state |-> "None", pending_start_time |-> None]
  ELSE [state |-> zd_state, pending_state |-> target_state,
        pending_start_time |-> zd_pending_start_time]

\* _apply_confirmation: the state it returns and the pending fields it leaves
confirmation(self, target_state, timestamp) ==
  IF target_state = self.state
  THEN [state |-> self.state, pending_state |-> "None", pending_start_time |-> None]
  ELSE IF confirm_times(target_state) = 0
  THEN [state |-> target_state, pending_state |-> "None", pending_start_time |-> None]
  ELSE IF target_state # self.pending_state
  THEN [state |-> self.state, pending_state |-> target_state,
        pending_start_time |-> Some(timestamp)]
  ELSE IF /\ self.pending_start_time # None
          /\ timestamp - Val(self.pending_start_time) >= confirm_times(target_state)
  THEN [state |-> target_state, pending_state |-> "None", pending_start_time |-> None]
  ELSE [state |-> self.state, pending_state |-> self.pending_state,
        pending_start_time |-> self.pending_start_time]

\* _apply_confirmation of the detector
apply_confirmation(target_state, timestamp) ==
  confirmation([state |-> zd_state, pending_state |-> zd_pending_state,
                pending_start_time |-> zd_pending_start_time],
               target_state, timestamp)

ZoneDetector_process_reading(distance, pir, timestamp) ==
  LET target_state == determine_target_state(distance, pir)
      conf == apply_confirmation(target_state, timestamp)
  IN  /\ zd_previous_state' = zd_state
      /\ zd_state' = conf.state
      /\ zd_pending_state' = conf.pending_state
      /\ zd_pending_start_time' = conf.pending_start_time
      /\ zd_last_distance' = distance
      /\ zd_last_pir' = pir
      /\ zd_last_timestamp' = timestamp

\* what the fed readings looked like (not program state)
ZDHistory(distance, pir, timestamp) ==
  LET target == determine_target_state(distance, pir)
      side == IF distance < ZONE_CROWDED_DIST THEN "below" ELSE "above"
      alternates == zd_prevBelow # "None" /\ side # zd_prevBelow
      occ == /\ pir = 1
             /\ ZONE_CROWDED_DIST <= distance
             /\ distance < ZONE_CLEAR_DIST
             /\ zd_state # "OCCUPIED"
  IN  /\ zd_runTarget' = target
      /\ zd_runStart' = IF target = zd_runTarget THEN zd_runStart ELSE Some(timestamp)
      /\ zd_prevBelow' = side
      /\ zd_altLen' = IF alternates
                      THEN (IF zd_altLen < ZD_AltCap THEN zd_altLen + 1 ELSE zd_altLen)
                      ELSE 0
      /\ zd_anchor' = IF alternates THEN zd_anchor ELSE zd_state'
      /\ zd_altOcc' = IF alternates THEN (zd_altOcc \/ occ) ELSE FALSE

ZDReading ==
  \E distance \in ZD_Distances, pir \in {0, 1}, dt \in ZD_Steps :
    /\ zd_last_timestamp + dt <= ZD_MaxTime
    /\ ZoneDetector_process_reading(distance, pir, zd_last_timestamp + dt)
    /\ ZDHistory(distance, pir, zd_last_timestamp + dt)

\* fault model: reset() leaves the pending state and its start time in place
ZoneDetector_reset_keep_pending ==
  /\ zd_state' = "CLEAR"
  /\ zd_last_distance' = 400
  /\ zd_last_pir' = 0
  /\ UNCHANGED <<zd_pending_state, zd_pending_start_time, zd_last_timestamp,
                 zd_previous_state>>

\* reset: last_timestamp is left as it is
ZoneDetector_reset ==
  /\ zd_state' = "CLEAR"
  /\ zd_pending_state' = "None"
  /\ zd_pending_start_time' = None
  /\ zd_last_distance' = 400
  /\ zd_last_pir' = 0
  /\ UNCHANGED <<zd_last_timestamp, zd_previous_state>>

\* the newly constructed detector
ZD2Init ==
  /\ zd2_state = "CLEAR"
  /\ zd2_pending_state = "None"
  /\ zd2_pending_start_time = None

\* process_reading of the newly constructed detector, as far as its state goes
ZoneDetector_process_reading_2(distance, pir, timestamp) ==
  LET conf == confirmation([state |-> zd2_state, pending_state |-> zd2_pending_state,
                            pending_start_time |-> zd2_pending_start_time],
                           determine_target_state(distance, pir), timestamp)
  IN  /\ zd2_state' = conf.state
      /\ zd2_pending_state' = conf.pending_state
      /\ zd2_pending_start_time' = conf.pending_start_time

\* bound of the explored runs of a ZoneDetector or SurgeEngine with reset()
RV_MaxResets == 1

\* a reading handed to the detector and, once reset() has been called, to the
\* newly constructed detector as well
ZDTwinReading ==
  \E distance \in ZD_Distances, pir \in {0, 1}, dt \in ZD_Steps :
    /\ rv_class = "ZoneDetector"
    /\ zd_last_timestamp + dt <= ZD_MaxTime
    /\ ZoneDetector_process_reading(distance, pir, zd_last_timestamp + dt)
    /\ ZDHistory(distance, pir, zd_last_timestamp + dt)
    /\ IF rv_resets > 0
       THEN ZoneDetector_process_reading_2(distance, pir, zd_last_timestamp + dt)
       ELSE UNCHANGED zd2_vars
    /\ UNCHANGED <<rv_class, rv_resets, rv_wiped>>

\* a reset() call, and a second detector constructed at the same moment; the
\* history of the readings starts again
ZDReset ==
  /\ rv_class = "ZoneDetector"
  /\ rv_resets < RV_MaxResets
  /\ ZoneDetector_reset
  /\ zd2_state' = "CLEAR"
  /\ zd2_pending_state' = "None"
  /\ zd2_pending_start_time' = None
  /\ rv_resets' = rv_resets + 1
  /\ rv_wiped' = <<zd_state, zd_pending_state>>
  /\ zd_runTarget' = "None"
  /\ zd_runStart' = None
  /\ zd_prevBelow' = "None"
  /\ zd_altLen' = 0
  /\ zd_anchor' = "CLEAR"
  /\ zd_altOcc' = FALSE
  /\ UNCHANGED rv_class

(***************************************************************************)
(* SurgeEngine                                                             *)
(*                                                                         *)
(* Risk components are integers in 1/600, weights in tenths, and the risk  *)
(* score and its thresholds in 1/6000, so that the arithmetic of           *)
(* _calculate_components is exact on integer distances and sound levels.   *)
(***************************************************************************)
ESCALATE_DELAY == 3000
DEESCALATE_DELAY == 10000
RISK_WEIGHTS ==
  [flow_imbalance |-> 2, entry_velocity |-> 2, cluster_density |-> 3,
   zone_blockage |-> 2, sound_level |-> 1]
STATE_THRESHOLDS == <<900, 2100, 3300, 4500>>
Nodes == {"A", "B", "C"}

\* SystemState.value
Rank(st) ==
  CASE st = "CLEAR" -> 0 [] st = "NORMAL" -> 1 [] st = "ELEVATED" -> 2
    [] st = "CRITICAL" -> 3 [] st = "SURGE" -> 4

Max(a, b) == IF a >= b THEN a ELSE b
Min(a, b) == IF a <= b THEN a ELSE b

\* sensor_data.get(node, {}).get(key, default)
Get(sensor_data, node, key, default) ==
  IF node \in DOMAIN sensor_data /\ key \in DOMAIN sensor_data[node]
  THEN sensor_data[node][key]
  ELSE default

\* bounds of the explored runs
SE_MaxTime == 17000
SE_Steps == {0, 1000, 2000, 5000}
SE_TwinMaxTime == 8000

\* the scenarios of the engine's own test suite, the all-40 / all-300 feed, and
\* feeds with nodes missing
All40 == [n \in Nodes |-> [dist |-> 40, pir |-> 1]]
All300 == [n \in Nodes |-> [dist |-> 300, pir |-> 0]]
SE_Inputs ==
  { All300, All40,
    ("A" :> [dist |-> 180, pir |-> 1] @@ "B" :> [dist |-> 200, pir |-> 0]
       @@ "C" :> [dist |-> 160, pir |-> 1, sound |-> 50]),
    ("A" :> [dist |-> 120, pir |-> 1] @@ "B" :> [dist |-> 140, pir |-> 1]
       @@ "C" :> [dist |-> 100, pir |-> 1, sound |-> 65]),
    ("A" :> [dist |-> 80, pir |-> 1] @@ "B" :> [dist |-> 90, pir |-> 1]
       @@ "C" :> [dist |-> 70, pir |-> 1, sound |-> 78]),
    ("A" :> [dist |-> 40, pir |-> 1] @@ "B" :> [dist |-> 50, pir |-> 1]
       @@ "C" :> [dist |-> 35, pir |-> 1, sound |-> 92]),
    ("A" :> [dist |-> 40, pir |-> 1]),
    ("C" :> [dist |-> 90, pir |-> 1, sound |-> 60]),
    << >> }

\* default_config of __init__
se_default_config ==
  [ESCALATE_DELAY |-> ESCALATE_DELAY, DEESCALATE_DELAY |-> DEESCALATE_DELAY,
   RISK_WEIGHTS |-> RISK_WEIGHTS]

\* configurations handed to the constructor: RISK_WEIGHTS (in tenths) that sum
\* to 1.0, to 1.5 and to 0.5; the delays stay at their defaults
SE_Configs ==
  { [RISK_WEIGHTS |-> RISK_WEIGHTS],
    [RISK_WEIGHTS |-> [flow_imbalance |-> 3, entry_velocity |-> 3, cluster_density |-> 3,
                       zone_blockage |-> 3, sound_level |-> 3]],
    [RISK_WEIGHTS |-> [flow_imbalance |-> 1, entry_velocity |-> 1, cluster_density |-> 1,
                       zone_blockage |-> 1, sound_level |-> 1]] }

\* validate_config's rule for RISK_WEIGHTS: abs(sum - 1.0) <= 0.01
weights_valid(weights) ==
  weights.flow_imbalance + weights.entry_velocity + weights.cluster_density
    + weights.zone_blockage + weights.sound_level = 10

SEInit ==
  /\ se_config = se_default_config
  /\ se_state = "CLEAR"
  /\ se_pending_state = "None"
  /\ se_pending_start_time = None
  /\ se_current_risk = 0
  /\ se_component_risks = << >>
  /\ se_zone_states = [n \in Nodes |-> "CLEAR"]
  /\ se_last_data = << >>
  /\ se_now = 0
  /\ se_runTarget = "None"
  /\ se_runStart = None
  /\ se_prevState = "CLEAR"
  /\ se_aboveStart = None

\* fault model: flow_imbalance is returned without min(1.0, ...)
calculate_components_unclamped(sensor_data) ==
  IF DOMAIN sensor_data = {}
  THEN [flow_imbalance |-> 0, entry_velocity |-> 0, cluster_density |-> 0,
        zone_blockage |-> 0, sound_level |-> 0]
  ELSE
    LET entry_dist == Get(sensor_data, "A", "dist", 300)
        exit_dist == Get(sensor_data, "C", "dist", 300)
        corridor_dist == Get(sensor_data, "B", "dist", 300)
        entry_pressure == Max(0, 2 * (300 - entry_dist))
        exit_flow == Max(0, 2 * (300 - exit_dist))
        imbalance == IF entry_pressure > 60
                     THEN Max(0, entry_pressure - exit_flow \div 2)
                     ELSE 0
        \* (300 - avg_dist) / 200 with avg_dist = sum / 3
        velocity_score == Max(0, 900 - (entry_dist + corridor_dist + exit_dist))
        min_dist == Min(entry_dist, Min(corridor_dist, exit_dist))
        cluster_score == IF min_dist < 50 THEN 600
                         ELSE IF min_dist < 100 THEN 420
                         ELSE IF min_dist < 150 THEN 240
                         ELSE Max(0, 3 * (200 - min_dist))
        blocked_zones == Cardinality({n \in Nodes : Get(sensor_data, n, "dist", 300) < 80})
        sound == Get(sensor_data, "C", "sound", 40)
        sound_score == IF sound > 85 THEN 600
                       ELSE IF sound > 70 THEN 40 * (sound - 70)
                       ELSE IF sound > 55 THEN 20 * (sound - 55)
                       ELSE 0
    IN  [flow_imbalance |-> imbalance,
         entry_velocity |-> Min(600, velocity_score),
         cluster_density |-> cluster_score,
         zone_blockage |-> Min(600, 300 * blocked_zones),
         sound_level |-> sound_score]

\* _calculate_components: the five components, each in 1/600
calculate_components(sensor_data) ==
  IF DOMAIN sensor_data = {}
  THEN [flow_imbalance |-> 0, entry_velocity |-> 0, cluster_density |-> 0,
        zone_blockage |-> 0, sound_level |-> 0]
  ELSE
    LET entry_dist == Get(sensor_data, "A", "dist", 300)
        exit_dist == Get(sensor_data, "C", "dist", 300)
        corridor_dist == Get(sensor_data, "B", "dist", 300)
        entry_pressure == Max(0, 2 * (300 - entry_dist))
        exit_flow == Max(0, 2 * (300 - exit_dist))
        imbalance == IF entry_pressure > 60
                     THEN Max(0, entry_pressure - exit_flow \div 2)
                     ELSE 0
        \* (300 - avg_dist) / 200 with avg_dist = sum / 3
        velocity_score == Max(0, 900 - (entry_dist + corridor_dist + exit_dist))
        min_dist == Min(entry_dist, Min(corridor_dist, exit_dist))
        cluster_score == IF min_dist < 50 THEN 600
                         ELSE IF min_dist < 100 THEN 420
                         ELSE IF min_dist < 150 THEN 240
                         ELSE Max(0, 3 * (200 - min_dist))
        blocked_zones == Cardinality({n \in Nodes : Get(sensor_data, n, "dist", 300) < 80})
        sound == Get(sensor_data, "C", "sound", 40)
        sound_score == IF sound > 85 THEN 600
                       ELSE IF sound > 70 THEN 40 * (sound - 70)
                       ELSE IF sound > 55 THEN 20 * (sound - 55)
                       ELSE 0
    IN  [flow_imbalance |-> Min(600, imbalance),
         entry_velocity |-> Min(600, velocity_score),
         cluster_density |-> cluster_score,
         zone_blockage |-> Min(600, 300 * blocked_zones),
         sound_level |-> sound_score]

\* the weighted sum of process_sensor_data, clamped to [0, 1]
weighted_risk(sensor_data) ==
  LET c == calculate_components(sensor_data)
      weights == se_config.RISK_WEIGHTS
      total == c.flow_imbalance * weights.flow_imbalance
               + c.entry_velocity * weights.entry_velocity
               + c.cluster_density * weights.cluster_density
               + c.zone_blockage * weights.zone_blockage
               + c.sound_level * weights.sound_level
  IN  Max(0, Min(6000, total))

\* fault model: a risk score equal to a threshold stays in the lower state
risk_to_state_above(risk) ==
  IF risk > STATE_THRESHOLDS[4] THEN "SURGE"
  ELSE IF risk > STATE_THRESHOLDS[3] THEN "CRITICAL"
  ELSE IF risk > STATE_THRESHOLDS[2] THEN "ELEVATED"
  ELSE IF risk > STATE_THRESHOLDS[1] THEN "NORMAL"
  ELSE "CLEAR"

\* _risk_to_state
risk_to_state(risk) ==
  IF risk >= STATE_THRESHOLDS[4] THEN "SURGE"
  ELSE IF risk >= STATE_THRESHOLDS[3] THEN "CRITICAL"
  ELSE IF risk >= STATE_THRESHOLDS[2] THEN "ELEVATED"
  ELSE IF risk >= STATE_THRESHOLDS[1] THEN "NORMAL"
  ELSE "CLEAR"

\* fault model: ESCALATE_DELAY is applied in both directions
apply_hysteresis_one_delay(target_state, timestamp) ==
  IF target_state = se_state
  THEN [state |-> se_state, pending_state |-> "None", pending_start_time |-> None]
  ELSE IF target_state # se_pending_state
  THEN [state |-> se_state, pending_state |-> target_state,
        pending_start_time |-> Some(timestamp)]
  ELSE IF /\ se_pending_start_time # None
          /\ timestamp - Val(se_pending_start_time) >= ESCALATE_DELAY
  THEN [state |-> target_state, pending_state |-> "None", pending_start_time |-> None]
  ELSE [state |-> se_state, pending_state |-> se_pending_state,
        pending_start_time |-> se_pending_start_time]

\* _apply_hysteresis on an engine whose fields are self.state,
\* self.pending_state and self.pending_start_time: the state it returns and the
\* pending fields it leaves
hysteresis(self, target_state, timestamp) ==
  IF target_state = self.state
  THEN [state |-> self.state, pending_state |-> "None", pending_start_time |-> None]
  ELSE
    LET is_escalating == Rank(target_state) > Rank(self.state)
        required_delay == IF is_escalating THEN ESCALATE_DELAY ELSE DEESCALATE_DELAY
    IN  IF target_state # self.pending_state
        THEN [state |-> self.state, pending_state |-> target_state,
              pending_start_time |-> Some(timestamp)]
        ELSE IF /\ self.pending_start_time # None
                /\ timestamp - Val(self.pending_start_time) >= required_delay
        THEN [state |-> target_state, pending_state |-> "None",
              pending_start_time |-> None]
        ELSE [state |-> self.state, pending_state |-> self.pending_state,
              pending_start_time |-> self.pending_start_time]

\* _apply_hysteresis of the engine
apply_hysteresis(target_state, timestamp) ==
  hysteresis([state |-> se_state, pending_state |-> se_pending_state,
              pending_start_time |-> se_pending_start_time],
             target_state, timestamp)

\* fault model: a zone without a reading is classified from the default distance
update_zone_states_default(sensor_data) ==
  [zone_id \in Nodes |->
     LET dist == Get(sensor_data, zone_id, "dist", 300)
     IN  IF dist < 50 THEN "SURGE"
         ELSE IF dist < 100 THEN "CRITICAL"
         ELSE IF dist < 150 THEN "ELEVATED"
         ELSE IF dist < 200 THEN "NORMAL"
         ELSE "CLEAR"]

\* _update_zone_states
update_zone_states(sensor_data) ==
  [zone_id \in Nodes |->
     IF zone_id \notin DOMAIN sensor_data THEN "OFFLINE"
     ELSE LET dist == Get(sensor_data, zone_id, "dist", 300)
          IN  IF dist < 50 THEN "SURGE"
              ELSE IF dist < 100 THEN "CRITICAL"
              ELSE IF dist < 150 THEN "ELEVATED"
              ELSE IF dist < 200 THEN "NORMAL"
              ELSE "CLEAR"]

process_sensor_data(sensor_data, timestamp) ==
  LET risk == weighted_risk(sensor_data)
      target_state == risk_to_state(risk)
      hyst == apply_hysteresis(target_state, timestamp)
  IN  /\ se_last_data' = sensor_data
      /\ se_current_risk' = risk
      /\ se_component_risks' = calculate_components(sensor_data)
      /\ se_state' = hyst.state
      /\ se_pending_state' = hyst.pending_state
      /\ se_pending_start_time' = hyst.pending_start_time
      /\ se_zone_states' = update_zone_states(sensor_data)
      /\ se_now' = timestamp
      /\ UNCHANGED se_config

\* what the calls made so far looked like (not program state)
SEHistory(sensor_data, timestamp) ==
  LET target == risk_to_state(weighted_risk(sensor_data))
  IN  /\ se_runTarget' = target
      /\ se_runStart' = IF target = se_runTarget THEN se_runStart ELSE Some(timestamp)
      /\ se_prevState' = se_state

SECall ==
  \E sensor_data \in SE_Inputs, dt \in SE_Steps :
    /\ se_now + dt <= SE_MaxTime
    /\ process_sensor_data(sensor_data, se_now + dt)
    /\ SEHistory(sensor_data, se_now + dt)
    /\ UNCHANGED se_aboveStart

\* the period of a caller that calls process_sensor_data at a regular tick
SE_Tick == 1000

\* one call of a regular caller; se_aboveStart keeps the time of the first of
\* the latest calls that all had a target above the committed state and did
\* not raise it
SETickCall ==
  \E sensor_data \in SE_Inputs :
    LET timestamp == se_now + SE_Tick
        target == risk_to_state(weighted_risk(sensor_data))
        hyst == apply_hysteresis(target, timestamp)
    IN  /\ timestamp <= SE_MaxTime
        /\ process_sensor_data(sensor_data, timestamp)
        /\ SEHistory(sensor_data, timestamp)
        /\ se_aboveStart' =
             IF Rank(target) > Rank(se_state) /\ hyst.state = se_state
             THEN IF se_aboveStart = None THEN Some(timestamp) ELSE se_aboveStart
             ELSE None

\* __init__ with a configuration: the defaults are merged with it and the
\* fields are set as in SEInit; nothing is checked and nothing is raised
SurgeEngine_init(config) ==
  /\ se_config' = [k \in DOMAIN se_default_config |->
                     IF k \in DOMAIN config THEN config[k] ELSE se_default_config[k]]
  /\ se_state' = "CLEAR"
  /\ se_pending_state' = "None"
  /\ se_pending_start_time' = None
  /\ se_current_risk' = 0
  /\ se_component_risks' = << >>
  /\ se_zone_states' = [n \in Nodes |-> "CLEAR"]
  /\ se_last_data' = << >>

\* the engine is replaced by one constructed with a configuration of SE_Configs
SEConstruct ==
  \E config \in SE_Configs :
    /\ SurgeEngine_init(config)
    /\ se_runTarget' = "None"
    /\ se_runStart' = None
    /\ se_prevState' = "CLEAR"
    /\ UNCHANGED se_aboveStart
    /\ UNCHANGED se_now

\* a single call on a fresh engine, with sensor data drawn from every subset of
\* the nodes, distances below, inside and beyond the sensor's range, and sound
\* levels around the segment ends of the sound score
SE_WideMaxTime == 1000
SE_WideDists == {0 - 50, 40, 90, 160, 1000}
SE_WideSounds == {0, 56, 70, 71, 86}

SE_WideReadings(node) ==
  {[dist |-> d] : d \in SE_WideDists}
    \cup (IF node = "C"
          THEN {[dist |-> d, sound |-> snd] : d \in SE_WideDists, snd \in SE_WideSounds}
          ELSE {})

SE_WideInputs ==
  UNION { {f \in [S -> UNION {SE_WideReadings(n) : n \in S}] :
             \A n \in S : f[n] \in SE_WideReadings(n)} : S \in SUBSET Nodes }

SEWideCall ==
  \E sensor_data \in SE_WideInputs :
    /\ se_now + 1000 <= SE_WideMaxTime
    /\ process_sensor_data(sensor_data, se_now + 1000)
    /\ SEHistory(sensor_data, se_now + 1000)
    /\ UNCHANGED se_aboveStart

\* the second engine after construction
SE2Init ==
  /\ se2_state = "CLEAR"
  /\ se2_pending_state = "None"
  /\ se2_pending_start_time = None
  /\ se2_now = 0

\* process_sensor_data of the second engine, as far as its committed state goes
process_sensor_data_2(sensor_data, timestamp) ==
  LET target_state == risk_to_state(weighted_risk(sensor_data))
      hyst == hysteresis([state |-> se2_state, pending_state |-> se2_pending_state,
                          pending_start_time |-> se2_pending_start_time],
                         target_state, timestamp)
  IN  /\ se2_state' = hyst.state
      /\ se2_pending_state' = hyst.pending_state
      /\ se2_pending_start_time' = hyst.pending_start_time
      /\ se2_now' = timestamp

\* one reading of the input sequence handed to both engines; each call reads
\* time.time() when it is made, and the two are made at unrelated instants
SETwinCall ==
  \E sensor_data \in {All300, All40}, dt1 \in SE_Steps, dt2 \in SE_Steps :
    /\ se_now + dt1 <= SE_TwinMaxTime
    /\ se2_now + dt2 <= SE_TwinMaxTime
    /\ process_sensor_data(sensor_data, se_now + dt1)
    /\ SEHistory(sensor_data, se_now + dt1)
    /\ UNCHANGED se_aboveStart
    /\ process_sensor_data_2(sensor_data, se2_now + dt2)

\* fault model: reset() leaves the pending state and its start time in place
SurgeEngine_reset_keep_pending ==
  /\ se_state' = "CLEAR"
  /\ se_current_risk' = 0
  /\ se_component_risks' = << >>
  /\ se_zone_states' = [n \in Nodes |-> "CLEAR"]
  /\ UNCHANGED <<se_pending_state, se_pending_start_time, se_last_data, se_config>>

\* reset: last_data and the configuration are left as they are
SurgeEngine_reset ==
  /\ se_state' = "CLEAR"
  /\ se_pending_state' = "None"
  /\ se_pending_start_time' = None
  /\ se_current_risk' = 0
  /\ se_component_risks' = << >>
  /\ se_zone_states' = [n \in Nodes |-> "CLEAR"]
  /\ UNCHANGED <<se_last_data, se_config>>

\* the feeds of a run about reset(): an empty room, dense readings on all
\* nodes, and a packed room
SE_ResetInputs ==
  { All300, All40,
    ("A" :> [dist |-> 80, pir |-> 1] @@ "B" :> [dist |-> 90, pir |-> 1]
       @@ "C" :> [dist |-> 70, pir |-> 1, sound |-> 78]) }

\* a call made on the engine and, once reset() has been called, on the newly
\* constructed engine at the same time.time()
SEResetCall ==
  \E sensor_data \in SE_ResetInputs, dt \in SE_Steps :
    /\ rv_class = "SurgeEngine"
    /\ se_now + dt <= SE_MaxTime
    /\ process_sensor_data(sensor_data, se_now + dt)
    /\ SEHistory(sensor_data, se_now + dt)
    /\ IF rv_resets > 0
       THEN process_sensor_data_2(sensor_data, se_now + dt)
       ELSE UNCHANGED se2_vars
    /\ UNCHANGED <<se_aboveStart, rv_vars>>

\* a reset() call, and a second engine constructed at the same moment; the
\* history of the calls starts again
SEReset ==
  /\ rv_class = "SurgeEngine"
  /\ rv_resets < RV_MaxResets
  /\ SurgeEngine_reset
  /\ se2_state' = "CLEAR"
  /\ se2_pending_state' = "None"
  /\ se2_pending_start_time' = None
  /\ se2_now' = se_now
  /\ rv_resets' = rv_resets + 1
  /\ rv_wiped' = <<se_state, se_pending_state>>
  /\ se_runTarget' = "None"
  /\ se_runStart' = None
  /\ se_prevState' = "CLEAR"
  /\ se_aboveStart' = None
  /\ UNCHANGED <<se_now, rv_class, zd2_vars>>

\* the fields of a PassageDetector that __init__ sets and process_reading reads
PassageDetector_fields ==
  [state |-> pd_state, passage_count |-> pd_passage_count,
   passage_timestamps |-> pd_passage_timestamps, last_distance |-> pd_last_distance,
   close_start_time |-> pd_close_start_time, far_start_time |-> pd_far_start_time,
   cooldown_start_time |-> pd_cooldown_start_time,
   total_approaches |-> pd_total_approaches, false_approaches |-> pd_false_approaches]

\* the same fields right after __init__
PassageDetector_fresh ==
  [state |-> "BASELINE", passage_count |-> 0, passage_timestamps |-> << >>,
   last_distance |-> BASELINE_DISTANCE, close_start_time |-> None,
   far_start_time |-> None, cooldown_start_time |-> None,
   total_approaches |-> 0, false_approaches |-> 0]

\* the readings and reset() of a PassageDetector in a run about reset()
PDResetRun ==
  /\ rv_class = "PassageDetector"
  /\ PDReading \/ PDReset

\* no run about reset()
RVInit ==
  /\ rv_class = "None"
  /\ rv_resets = 0
  /\ rv_wiped = None
  /\ ZD2Init

\* a run about reset() of one of the three classes
RVInitAny ==
  /\ rv_class \in {"PassageDetector", "ZoneDetector", "SurgeEngine"}
  /\ rv_resets = 0
  /\ rv_wiped = None
  /\ ZD2Init

(***************************************************************************)
(* AlertManager                                                            *)
(*                                                                         *)
(* Times are integers in seconds.  A registered handler is modelled by     *)
(* what a call of it does: it returns or it raises.                        *)
(***************************************************************************)
AlertLevel == {"INFO", "WARNING", "CRITICAL", "EMERGENCY"}

\* AlertLevel.value
level_value(level) ==
  CASE level = "INFO" -> 0 [] level = "WARNING" -> 1
    [] level = "CRITICAL" -> 2 [] level = "EMERGENCY" -> 3

\* default_config of __init__
default_config ==
  [COOLDOWN_SECONDS |-> 30, MAX_ALERTS_PER_MINUTE |-> 10,
   ENABLE_BUZZER |-> TRUE, ENABLE_CONSOLE |-> TRUE]

\* deque(maxlen=100)
DEQUE_MAXLEN == 100
RATE_WINDOW == 60

\* deque.append on a deque with maxlen
deque_append(q, x) ==
  IF Len(q) >= DEQUE_MAXLEN THEN Append(Tail(q), x) ELSE Append(q, x)

\* bounds of the explored runs
AM_StartTime == 60
AM_MaxTime == 150
AM_MaxCalls == 4
AM_MaxHandlers == 2
AM_Steps == {0, 15, 30}
AM_Levels == {"INFO", "EMERGENCY"}
AM_Types == {"general", "state_SURGE"}
\* the default configuration, and one whose rate limit the explored runs reach
AM_Configs ==
  { default_config,
    [default_config EXCEPT !.MAX_ALERTS_PER_MINUTE = 3, !.ENABLE_BUZZER = FALSE] }

NoDispatch == [console |-> FALSE, buzzer |-> FALSE, called |-> << >>, raised |-> FALSE]

\* __init__ with a configuration
AlertManager_init(config) ==
  /\ am_config = config
  /\ am_alert_history = << >>
  /\ am_last_alert_time = << >>
  /\ am_alerts_this_minute = << >>
  /\ am_handlers = << >>
  /\ am_total_alerts = 0
  /\ am_suppressed_alerts = 0
  /\ am_result = "None"
  /\ am_dispatch = NoDispatch
  /\ am_now = AM_StartTime
  /\ am_calls = 0
  /\ am_lastLevel = "None"
  /\ am_lastType = "None"
  /\ am_emitted = << >>
  /\ am_changes = 0
  /\ am_change = [old_state |-> "None", new_state |-> "None", level |-> "None"]
  /\ am_sinceReset = 0
  /\ am_resets = 0

\* AlertManager()
AMInit == AlertManager_init(default_config)

\* AlertManager(config) for a configuration of AM_Configs
AMInitConfigured == \E config \in AM_Configs : AlertManager_init(config)

\* register_handler
register_handler(handler) == am_handlers' = Append(am_handlers, handler)

\* fault model: the limit is compared with <= (one alert too many goes out)
check_rate_limit_inclusive(timestamp) ==
  LET cutoff == timestamp - RATE_WINDOW
      recent == Cardinality({i \in 1..Len(am_alerts_this_minute) :
                               am_alerts_this_minute[i] >= cutoff})
  IN  recent <= am_config.MAX_ALERTS_PER_MINUTE

\* _check_rate_limit
check_rate_limit(timestamp) ==
  LET cutoff == timestamp - RATE_WINDOW
      recent == Cardinality({i \in 1..Len(am_alerts_this_minute) :
                               am_alerts_this_minute[i] >= cutoff})
  IN  recent < am_config.MAX_ALERTS_PER_MINUTE

\* fault model: the cooldown ends only after more than COOLDOWN_SECONDS
check_cooldown_strict(alert_type, timestamp) ==
  LET last_time == IF alert_type \in DOMAIN am_last_alert_time
                   THEN am_last_alert_time[alert_type] ELSE 0
      cooldown == am_config.COOLDOWN_SECONDS
  IN  (timestamp - last_time) > cooldown

\* fault model: one cooldown shared by all alert types
check_cooldown_any_type(alert_type, timestamp) ==
  LET cooldown == am_config.COOLDOWN_SECONDS
  IN  \A t \in DOMAIN am_last_alert_time : (timestamp - am_last_alert_time[t]) >= cooldown

\* _check_cooldown
check_cooldown(alert_type, timestamp) ==
  LET last_time == IF alert_type \in DOMAIN am_last_alert_time
                   THEN am_last_alert_time[alert_type] ELSE 0
      cooldown == am_config.COOLDOWN_SECONDS
  IN  (timestamp - last_time) >= cooldown

\* fault model: no try/except around the handler call: the first handler that
\* raises ends the loop and its exception leaves the method
dispatch_alert_abort(alert) ==
  LET raising == {i \in 1..Len(am_handlers) : am_handlers[i] = "raises"}
      last == IF raising = {} THEN Len(am_handlers)
              ELSE CHOOSE i \in raising : \A j \in raising : i <= j
  IN  [console |-> am_config.ENABLE_CONSOLE,
       buzzer |-> am_config.ENABLE_BUZZER /\ alert.level_value >= level_value("CRITICAL"),
       called |-> [i \in 1..last |-> i],
       raised |-> raising # {}]

\* _dispatch_alert: the channels used and the handlers called, in order; an
\* exception of a handler is caught inside the loop, so none leaves the method
dispatch_alert(alert) ==
  [console |-> am_config.ENABLE_CONSOLE,
   buzzer |-> am_config.ENABLE_BUZZER /\ alert.level_value >= level_value("CRITICAL"),
   called |-> [i \in 1..Len(am_handlers) |-> i],
   raised |-> FALSE]

\* fault model: a suppressed alert restarts the cooldown of its alert_type
trigger_alert_extend(level, alert_type, timestamp) ==
  IF ~check_rate_limit(timestamp) \/ ~check_cooldown(alert_type, timestamp)
  THEN /\ am_suppressed_alerts' = am_suppressed_alerts + 1
       /\ am_result' = "False"
       /\ am_dispatch' = NoDispatch
       /\ am_last_alert_time' =
            [t \in DOMAIN am_last_alert_time \cup {alert_type} |->
               IF t = alert_type THEN timestamp ELSE am_last_alert_time[t]]
       /\ UNCHANGED <<am_alert_history, am_total_alerts, am_alerts_this_minute>>
  ELSE LET alert == [timestamp |-> timestamp, level |-> level,
                     level_value |-> level_value(level), type |-> alert_type]
           d == dispatch_alert(alert)
       IN  /\ am_alert_history' = deque_append(am_alert_history, alert)
           /\ am_total_alerts' = am_total_alerts + 1
           /\ am_last_alert_time' =
                [t \in DOMAIN am_last_alert_time \cup {alert_type} |->
                   IF t = alert_type THEN timestamp ELSE am_last_alert_time[t]]
           /\ am_alerts_this_minute' = deque_append(am_alerts_this_minute, timestamp)
           /\ am_dispatch' = d
           /\ am_result' = IF d.raised THEN "raised" ELSE "True"
           /\ UNCHANGED am_suppressed_alerts

\* trigger_alert; am_result is its return value
trigger_alert(level, alert_type, timestamp) ==
  IF ~check_rate_limit(timestamp) \/ ~check_cooldown(alert_type, timestamp)
  THEN /\ am_suppressed_alerts' = am_suppressed_alerts + 1
       /\ am_result' = "False"
       /\ am_dispatch' = NoDispatch
       /\ UNCHANGED <<am_alert_history, am_total_alerts, am_last_alert_time,
                      am_alerts_this_minute>>
  ELSE LET alert == [timestamp |-> timestamp, level |-> level,
                     level_value |-> level_value(level), type |-> alert_type]
           d == dispatch_alert(alert)
       IN  /\ am_alert_history' = deque_append(am_alert_history, alert)
           /\ am_total_alerts' = am_total_alerts + 1
           /\ am_last_alert_time' =
                [t \in DOMAIN am_last_alert_time \cup {alert_type} |->
                   IF t = alert_type THEN timestamp ELSE am_last_alert_time[t]]
           /\ am_alerts_this_minute' = deque_append(am_alerts_this_minute, timestamp)
           /\ am_dispatch' = d
           /\ am_result' = IF d.raised THEN "raised" ELSE "True"
           /\ UNCHANGED am_suppressed_alerts

\* what the calls made so far looked like (not program state)
AMHistory(level, alert_type, timestamp) ==
  /\ am_calls' = am_calls + 1
  /\ am_sinceReset' = am_sinceReset + 1
  /\ am_lastLevel' = level
  /\ am_lastType' = alert_type
  /\ am_emitted' =
       IF check_rate_limit(timestamp) /\ check_cooldown(alert_type, timestamp)
       THEN Append(am_emitted, [timestamp |-> timestamp, level |-> level,
                                type |-> alert_type])
       ELSE am_emitted

AMRegister ==
  \E handler \in {"returns", "raises"} :
    /\ Len(am_handlers) < AM_MaxHandlers
    /\ register_handler(handler)
    /\ UNCHANGED <<am_config, am_alert_history, am_last_alert_time,
                   am_alerts_this_minute, am_total_alerts, am_suppressed_alerts,
                   am_result, am_dispatch, am_now, am_hist>>

AMTrigger ==
  \E level \in AM_Levels, alert_type \in AM_Types, dt \in AM_Steps :
    /\ am_calls < AM_MaxCalls
    /\ am_now + dt <= AM_MaxTime
    /\ am_now' = am_now + dt
    /\ trigger_alert(level, alert_type, am_now + dt)
    /\ AMHistory(level, alert_type, am_now + dt)
    /\ UNCHANGED <<am_config, am_handlers, am_changes, am_change, am_resets>>

\* clear_history
clear_history ==
  /\ am_alert_history' = << >>
  /\ am_last_alert_time' = << >>
  /\ am_alerts_this_minute' = << >>

\* fault model: reset() keeps suppressed_alerts
AlertManager_reset_keep_suppressed ==
  /\ am_alert_history' = << >>
  /\ am_last_alert_time' = << >>
  /\ am_alerts_this_minute' = << >>
  /\ am_total_alerts' = 0
  /\ UNCHANGED am_suppressed_alerts

\* reset
AlertManager_reset ==
  /\ clear_history
  /\ am_total_alerts' = 0
  /\ am_suppressed_alerts' = 0

\* bound of the explored runs with reset() and clear_history()
AM_MaxResets == 1

\* a reset() call; the emitted alerts it forgets are forgotten by the history too
AMReset ==
  /\ am_resets < AM_MaxResets
  /\ AlertManager_reset
  /\ am_resets' = am_resets + 1
  /\ am_sinceReset' = 0
  /\ am_emitted' = << >>
  /\ UNCHANGED <<am_config, am_handlers, am_result, am_dispatch, am_now, am_calls,
                 am_lastLevel, am_lastType, am_changes, am_change>>

\* a clear_history() call
AMClearHistory ==
  /\ am_resets < AM_MaxResets
  /\ clear_history
  /\ am_resets' = am_resets + 1
  /\ am_emitted' = << >>
  /\ UNCHANGED <<am_config, am_handlers, am_total_alerts, am_suppressed_alerts, am_result,
                 am_dispatch, am_now, am_calls, am_lastLevel, am_lastType, am_changes,
                 am_change, am_sinceReset>>

\* bounds of the explored state changes
AM_MaxChanges == 3
AM_States == {"CLEAR", "NORMAL", "ELEVATED", "CRITICAL", "SURGE"}
AM_ChangeSteps == {0, 30}

\* state_levels of process_state_change, INFO for a state it does not list
state_levels(state) ==
  CASE state = "ELEVATED" -> "WARNING"
    [] state = "CRITICAL" -> "CRITICAL"
    [] state = "SURGE" -> "EMERGENCY"
    [] OTHER -> "INFO"

\* process_state_change at time timestamp: no alert below WARNING, else
\* trigger_alert with the level of the new state and alert_type "state_<new>"
process_state_change(old_state, new_state, timestamp) ==
  LET level == state_levels(new_state)
  IN  IF level_value(level) < level_value("WARNING")
      THEN /\ UNCHANGED <<am_alert_history, am_last_alert_time, am_alerts_this_minute,
                          am_total_alerts, am_suppressed_alerts, am_result, am_dispatch>>
           /\ UNCHANGED <<am_calls, am_lastLevel, am_lastType, am_emitted, am_sinceReset>>
           /\ am_change' = [old_state |-> old_state, new_state |-> new_state,
                            level |-> "None"]
      ELSE /\ trigger_alert(level, "state_" \o new_state, timestamp)
           /\ AMHistory(level, "state_" \o new_state, timestamp)
           /\ am_change' = [old_state |-> old_state, new_state |-> new_state,
                            level |-> level]

AMStateChange ==
  \E old_state \in AM_States, new_state \in AM_States, dt \in AM_ChangeSteps :
    /\ new_state # old_state
    /\ am_changes < AM_MaxChanges
    /\ am_now + dt <= AM_MaxTime
    /\ am_now' = am_now + dt
    /\ am_changes' = am_changes + 1
    /\ UNCHANGED am_resets
    /\ process_state_change(old_state, new_state, am_now + dt)
    /\ UNCHANGED <<am_config, am_handlers>>

(***************************************************************************)
(* ClusterDetector                                                         *)
(*                                                                         *)
(* Lengths are integers in centimetres (the source rounds a cluster's      *)
(* centre to 0.01 m).  A cell is the pair <<row, col>>, counted from 0.    *)
(***************************************************************************)
ROOM_WIDTH == 1000
ROOM_HEIGHT == 1000
CELL_SIZE == 200
MIN_CLUSTER_SIZE == 3
MEDIUM_THRESHOLD == 5
HIGH_THRESHOLD == 8
DENSITY_THRESHOLD == 2

grid_cols == Max(1, ROOM_WIDTH \div CELL_SIZE)
grid_rows == Max(1, ROOM_HEIGHT \div CELL_SIZE)
Cells == (0..(grid_rows - 1)) \X (0..(grid_cols - 1))

\* int(a / b) of Python for b > 0: the quotient truncated towards zero
int_div(a, b) == IF a >= 0 THEN a \div b ELSE 0 - ((0 - a) \div b)

\* round(n / t, 2) in centimetres for n >= 0, t > 0: to the nearest integer,
\* a tie to the even one
round_div(n, t) ==
  LET q == n \div t
      r == n % t
  IN  IF 2 * r < t THEN q
      ELSE IF 2 * r > t THEN q + 1
      ELSE IF q % 2 = 0 THEN q ELSE q + 1

\* _position_to_cell
position_to_cell(x, y) ==
  LET col == int_div(x, CELL_SIZE)
      row == int_div(y, CELL_SIZE)
  IN  <<Max(0, Min(grid_rows - 1, row)), Max(0, Min(grid_cols - 1, col))>>

\* _cell_to_position: the centre <<x, y>> of a cell
cell_to_position(row, col) ==
  <<((2 * col + 1) * CELL_SIZE) \div 2, ((2 * row + 1) * CELL_SIZE) \div 2>>

\* _calculate_risk
calculate_risk(count) ==
  IF count >= HIGH_THRESHOLD THEN "HIGH"
  ELSE IF count >= MEDIUM_THRESHOLD THEN "MEDIUM"
  ELSE "LOW"

\* fault model: update keeps the counts of the previous call
reset_grid_keep(grid) == grid

\* _reset_grid: every cell back to 0
reset_grid(grid) == [cell \in Cells |-> 0]

\* update, the loop over positions: each position adds 1 to its cell of grid
populate(grid, positions) ==
  [cell \in Cells |->
     grid[cell] + Cardinality({i \in 1..Len(positions) :
                    position_to_cell(positions[i][1], positions[i][2]) = cell})]

\* fault model: every occupied cell counts as dense
dense_nonempty(grid, cell) == grid[cell] >= 1

\* the test "self.grid[row][col] >= density_threshold"
dense(grid, cell) == grid[cell] >= DENSITY_THRESHOLD

\* fault model: the diagonal neighbours count as well
neighbors_diagonal(cell) ==
  {n \in Cells : /\ n # cell
                 /\ n[1] - cell[1] \in {0 - 1, 0, 1}
                 /\ n[2] - cell[2] \in {0 - 1, 0, 1}}

\* the up, down, left and right neighbours inside the grid
neighbors(cell) ==
  {n \in Cells : \/ (n[1] = cell[1] /\ (n[2] = cell[2] - 1 \/ n[2] = cell[2] + 1))
                 \/ (n[2] = cell[2] /\ (n[1] = cell[1] - 1 \/ n[1] = cell[1] + 1))}

\* _bfs_cluster: the dense, not yet visited cells reached from the start cell
\* through neighbours; found holds the cells marked so far
RECURSIVE bfs_cluster(_, _, _)
bfs_cluster(grid, found, visited) ==
  LET more == {n \in Cells : /\ dense(grid, n)
                             /\ n \notin found /\ n \notin visited
                             /\ \E c \in found : n \in neighbors(c)}
  IN  IF more = {} THEN found ELSE bfs_cluster(grid, found \cup more, visited)

\* the sum of f over a finite set of cells
RECURSIVE sum_over(_, _)
sum_over(f, cells) ==
  IF cells = {} THEN 0
  ELSE LET c == CHOOSE c \in cells : TRUE
       IN  f[c] + sum_over(f, cells \ {c})

\* _build_cluster, for a non-empty set of cells
build_cluster(grid, cells) ==
  LET total_count == sum_over(grid, cells)
      total_x == sum_over([c \in Cells |-> cell_to_position(c[1], c[2])[1] * grid[c]], cells)
      total_y == sum_over([c \in Cells |-> cell_to_position(c[1], c[2])[2] * grid[c]], cells)
      first == CHOOSE c \in cells : TRUE
  IN  [center |-> IF total_count > 0
                  THEN <<round_div(total_x, total_count), round_div(total_y, total_count)>>
                  ELSE cell_to_position(first[1], first[2]),
       count |-> total_count,
       cells |-> cells,
       risk |-> calculate_risk(total_count)]

\* the cells in the order of the loops "for row ... for col ..."
cell_at(k) == <<k \div grid_cols, k % grid_cols>>

\* _find_clusters, first loop: one cluster per group of connected dense cells
\* that holds MIN_CLUSTER_SIZE positions or more
RECURSIVE connected_pass(_, _, _, _)
connected_pass(grid, k, visited, clusters) ==
  IF k >= grid_rows * grid_cols THEN clusters
  ELSE
    LET cell == cell_at(k)
    IN  IF cell \in visited \/ ~dense(grid, cell)
        THEN connected_pass(grid, k + 1, visited, clusters)
        ELSE
          LET cluster_cells == bfs_cluster(grid, {cell}, visited)
              cluster == build_cluster(grid, cluster_cells)
          IN  connected_pass(grid, k + 1, visited \cup cluster_cells,
                             IF cluster.count >= MIN_CLUSTER_SIZE
                             THEN Append(clusters, cluster)
                             ELSE clusters)

\* fault model: the second loop adds every cell with MIN_CLUSTER_SIZE positions
already_counted_never(clusters, cell_center) == FALSE

\* _find_clusters, second loop: some cluster's centre lies less than
\* 1.5 * cell_size from the cell's centre
already_counted(clusters, cell_center) ==
  \E i \in 1..Len(clusters) :
    LET dx == clusters[i].center[1] - cell_center[1]
        dy == clusters[i].center[2] - cell_center[2]
    IN  4 * (dx * dx + dy * dy) < 9 * CELL_SIZE * CELL_SIZE

\* _find_clusters, second loop: a cell with MIN_CLUSTER_SIZE positions or more
\* that is not already counted becomes a cluster of its own
RECURSIVE single_cell_pass(_, _, _)
single_cell_pass(grid, k, clusters) ==
  IF k >= grid_rows * grid_cols THEN clusters
  ELSE
    LET cell == cell_at(k)
        count == grid[cell]
        cell_center == cell_to_position(cell[1], cell[2])
    IN  IF count >= MIN_CLUSTER_SIZE /\ ~already_counted(clusters, cell_center)
        THEN single_cell_pass(grid, k + 1,
               Append(clusters, [center |-> cell_center, count |-> count,
                                 cells |-> {cell}, risk |-> calculate_risk(count)]))
        ELSE single_cell_pass(grid, k + 1, clusters)

\* clusters.sort(key=count, reverse=True): largest first, equal counts in the
\* order they had
RECURSIVE sort_by_count(_)
sort_by_count(clusters) ==
  IF clusters = << >> THEN << >>
  ELSE
    LET n == Len(clusters)
        init == sort_by_count(SubSeq(clusters, 1, n - 1))
        x == clusters[n]
        ahead == Cardinality({i \in 1..Len(init) : init[i].count >= x.count})
    IN  SubSeq(init, 1, ahead) \o <<x>> \o SubSeq(init, ahead + 1, Len(init))

\* _find_clusters
find_clusters(grid) ==
  sort_by_count(single_cell_pass(grid, 0, connected_pass(grid, 0, {}, << >>)))

\* get_clusters
get_clusters ==
  [i \in 1..Len(cd_clusters) |->
     [center |-> cd_clusters[i].center, count |-> cd_clusters[i].count,
      risk |-> cd_clusters[i].risk]]

\* get_max_cluster_size
get_max_cluster_size ==
  IF cd_clusters = << >> THEN 0
  ELSE LET i == CHOOSE i \in 1..Len(cd_clusters) :
                  \A j \in 1..Len(cd_clusters) : cd_clusters[i].count >= cd_clusters[j].count
       IN  cd_clusters[i].count

\* get_cluster_risk_score, in 1/6000 and before round(..., 3):
\* 0.5 * min(1, max_size / (HIGH_THRESHOLD * 1.5)) + 0.2 * min(1, n / 5)
\*   + 0.3 * min(1, high / 2)
get_cluster_risk_score ==
  IF cd_clusters = << >> THEN 0
  ELSE
    LET num_clusters == Len(cd_clusters)
        high_risk_count == Cardinality({i \in 1..Len(cd_clusters) :
                                          cd_clusters[i].risk = "HIGH"})
    IN  Min(6000,
            (6000 * Min(3 * HIGH_THRESHOLD, 2 * get_max_cluster_size)) \div (6 * HIGH_THRESHOLD)
              + 240 * Min(5, num_clusters)
              + 900 * Min(2, high_risk_count))

\* bounds of the explored runs: the positions handed to update are copies of
\* five points: two in cell <<2, 2>>, one in its neighbour <<2, 3>>, one in
\* <<3, 3>> (diagonal to <<2, 2>>) and one outside the room (clamped to <<0, 4>>);
\* the i-th point is taken at most CD_MaxCopies[i] times
CD_Points == << <<500, 500>>, <<520, 510>>, <<700, 500>>, <<700, 700>>, <<1200, 0 - 100>> >>
CD_Copies == 0..3
CD_MaxCopies == <<2, 2, 2, 3, 1>>

\* the list with copies[i] copies of the i-th point, in the order of the points
RECURSIVE CD_List(_, _)
CD_List(copies, i) ==
  IF i > Len(CD_Points) THEN << >>
  ELSE [j \in 1..copies[i] |-> CD_Points[i]] \o CD_List(copies, i + 1)

\* __init__
CDInit ==
  /\ cd_grid = [cell \in Cells |-> 0]
  /\ cd_clusters = << >>
  /\ cd_positions = << >>
  /\ cd_hadClusters = FALSE

\* update
ClusterDetector_update(positions) ==
  /\ cd_grid' = populate(reset_grid(cd_grid), positions)
  /\ cd_clusters' = find_clusters(cd_grid')

CDUpdate ==
  \E copies \in [1..Len(CD_Points) -> CD_Copies] :
    /\ \A i \in 1..Len(CD_Points) : copies[i] <= CD_MaxCopies[i]
    /\ ClusterDetector_update(CD_List(copies, 1))
    /\ cd_positions' = CD_List(copies, 1)
    /\ cd_hadClusters' = (cd_clusters # << >>)

\* positions along one row of the grid: the centres of the five cells of row 2;
\* an end cell is left empty or holds CD_RunEnd positions, an inner cell is left
\* empty or holds 2 or 3
CD_RunPoints == << <<100, 500>>, <<300, 500>>, <<500, 500>>, <<700, 500>>, <<900, 500>> >>
CD_RunEnd == 3
CD_RunCopies == << {0, CD_RunEnd}, {0, 2, 3}, {0, 2, 3}, {0, 2, 3}, {0, CD_RunEnd} >>

\* the list with copies[i] copies of the i-th point of the row
RECURSIVE CD_RunList(_, _)
CD_RunList(copies, i) ==
  IF i > Len(CD_RunPoints) THEN << >>
  ELSE [j \in 1..copies[i] |-> CD_RunPoints[i]] \o CD_RunList(copies, i + 1)

CDRunUpdate ==
  \E copies \in [1..Len(CD_RunPoints) -> 0..CD_RunEnd] :
    /\ \A i \in 1..Len(CD_RunPoints) : copies[i] \in CD_RunCopies[i]
    /\ ClusterDetector_update(CD_RunList(copies, 1))
    /\ cd_positions' = CD_RunList(copies, 1)
    /\ cd_hadClusters' = (cd_clusters # << >>)

(***************************************************************************)
(* DeviceTracker                                                           *)
(*                                                                         *)
(* Times are integers in seconds.  WIFI_MULTIPLIER (1.4) and the overlap   *)
(* factor (0.3) are in tenths; the product is taken exactly, which is what *)
(* the floating-point product of the source gives for the counts explored. *)
(***************************************************************************)
WIFI_MULTIPLIER == 14
DEVICE_TIMEOUT == 30
overlap_factor == 3
COUNT_HISTORY_MAXLEN == 300

\* the keys of self.node_positions
node_positions == {"A", "B", "C"}

\* bounds of the explored runs
DT_MaxUpdates == 3
DT_Ids == {"A", "B", "C", "D"}
DT_Counts == {0, 5, 10}
DT_Steps == {0, 20}

\* _get_active_nodes: the nodes whose data is younger than DEVICE_TIMEOUT
get_active_nodes(node_data, now) ==
  {n \in DOMAIN node_data : now - node_data[n].timestamp < DEVICE_TIMEOUT}

\* _get_active_nodes also stores the age in the data of each active node
with_ages(node_data, now) ==
  [n \in DOMAIN node_data |->
     IF n \in get_active_nodes(node_data, now)
     THEN [node_data[n] EXCEPT !.age = now - node_data[n].timestamp]
     ELSE node_data[n]]

\* the sum of the counts of a set of nodes
RECURSIVE sum_counts(_, _)
sum_counts(node_data, nodes) ==
  IF nodes = {} THEN 0
  ELSE LET n == CHOOSE n \in nodes : TRUE
       IN  node_data[n].count + sum_counts(node_data, nodes \ {n})

\* get_device_count at time now:
\* int((max_count + total_others * 0.3) * WIFI_MULTIPLIER)
get_device_count(node_data, now) ==
  LET active == get_active_nodes(node_data, now)
  IN  IF active = {} THEN 0
      ELSE
        LET max_count == node_data[CHOOSE n \in active :
                           \A o \in active : node_data[n].count >= node_data[o].count].count
            total_others == sum_counts(node_data,
                              {n \in active : node_data[n].count # max_count})
        IN  ((10 * max_count + overlap_factor * total_others) * WIFI_MULTIPLIER) \div 100

\* get_raw_counts at time now
get_raw_counts(node_data, now) ==
  [n \in get_active_nodes(node_data, now) |-> node_data[n].count]

\* __init__
DTInit ==
  /\ dt_node_data = << >>
  /\ dt_count_history = << >>
  /\ dt_peak_count = 0
  /\ dt_total_updates = 0
  /\ dt_now = 0
  /\ dt_zone_counts = << >>
  /\ dt_positions = << >>
  /\ dt_lastCall = "None"

\* update_scan(node_id, wifi_count) at time timestamp
update_scan(node_id, wifi_count, timestamp) ==
  LET stored == [n \in DOMAIN dt_node_data \cup {node_id} |->
                   IF n = node_id
                   THEN [count |-> wifi_count, timestamp |-> timestamp, age |-> 0]
                   ELSE dt_node_data[n]]
      total == get_device_count(stored, timestamp)
  IN  /\ dt_node_data' = with_ages(stored, timestamp)
      /\ dt_total_updates' = dt_total_updates + 1
      /\ dt_count_history' =
           LET h == Append(dt_count_history, <<timestamp, total>>)
           IN  IF Len(h) > COUNT_HISTORY_MAXLEN THEN Tail(h) ELSE h
      /\ dt_peak_count' = IF total > dt_peak_count THEN total ELSE dt_peak_count

DTUpdateScan ==
  \E node_id \in DT_Ids, wifi_count \in DT_Counts, step \in DT_Steps :
    /\ dt_total_updates < DT_MaxUpdates
    /\ dt_now' = dt_now + step
    /\ update_scan(node_id, wifi_count, dt_now + step)
    /\ UNCHANGED dt_results
    /\ dt_lastCall' = "update_scan"

\* ROOM_WIDTH and ROOM_HEIGHT of the tracker's configuration, in cm
DT_ROOM_WIDTH == 1000
DT_ROOM_HEIGHT == 1000

\* _define_zones: zone -> <<x_min, y_min, x_max, y_max>>, in cm
zones ==
  [A |-> <<0, DT_ROOM_HEIGHT \div 2, DT_ROOM_WIDTH \div 2, DT_ROOM_HEIGHT>>,
   B |-> <<DT_ROOM_WIDTH \div 2, DT_ROOM_HEIGHT \div 2, DT_ROOM_WIDTH, DT_ROOM_HEIGHT>>,
   C |-> <<DT_ROOM_WIDTH \div 4, 0, (3 * DT_ROOM_WIDTH) \div 4, DT_ROOM_HEIGHT \div 2>>,
   center |-> <<DT_ROOM_WIDTH \div 4, DT_ROOM_HEIGHT \div 4,
                (3 * DT_ROOM_WIDTH) \div 4, (3 * DT_ROOM_HEIGHT) \div 4>>]

\* the keys of the dictionary get_zone_counts returns, in its order
zone_order == <<"A", "B", "C", "center">>

\* the share of a node zone: int(total_devices * (count / total_raw) * 0.6)
\* (the floor of the exact value; equal to the float result on every count of
\* DT_Counts, and where float rounding gives one less the center zone takes it)
zone_share(total_devices, count, total_raw) ==
  (total_devices * count * 6) \div (total_raw * 10)

\* fault model: nothing is assigned to the center zone
get_zone_counts_no_center(node_data, now) ==
  LET active == get_active_nodes(node_data, now)
      total_devices == get_device_count(node_data, now)
      total_raw == sum_counts(node_data, active)
  IN  IF active = {} \/ total_devices = 0 \/ total_raw = 0
      THEN [z \in DOMAIN zones |-> 0]
      ELSE [z \in DOMAIN zones |->
              IF z \in active
              THEN zone_share(total_devices, node_data[z].count, total_raw)
              ELSE 0]

\* get_zone_counts at time now
get_zone_counts(node_data, now) ==
  LET active == get_active_nodes(node_data, now)
      total_devices == get_device_count(node_data, now)
      total_raw == sum_counts(node_data, active)
      node_zone == [z \in {"A", "B", "C"} |->
                      IF z \in active
                      THEN zone_share(total_devices, node_data[z].count, total_raw)
                      ELSE 0]
      assigned == node_zone["A"] + node_zone["B"] + node_zone["C"]
  IN  IF active = {} \/ total_devices = 0 \/ total_raw = 0
      THEN [z \in DOMAIN zones |-> 0]
      ELSE [z \in DOMAIN zones |->
              IF z = "center" THEN Max(0, total_devices - assigned) ELSE node_zone[z]]

\* get_estimated_positions, given the corner of the zone rectangles that
\* random.uniform returned for the positions: the positions zone by zone in
\* the order of the dictionary
RECURSIVE estimated_positions(_, _, _)
estimated_positions(zone_counts, corner, k) ==
  IF k > Len(zone_order) THEN << >>
  ELSE
    LET zone_id == zone_order[k]
        count == zone_counts[zone_id]
        x == IF corner = "min" THEN zones[zone_id][1] ELSE zones[zone_id][3]
        y == IF corner = "min" THEN zones[zone_id][2] ELSE zones[zone_id][4]
    IN  [i \in 1..count |-> <<x, y>>] \o estimated_positions(zone_counts, corner, k + 1)

\* a call of get_estimated_positions at the time of the last update_scan (the
\* nodes grow stale through the steps of update_scan); _get_active_nodes
\* stores the ages it computes
DTGetPositions ==
  \E corner \in {"min", "max"} :
    LET now == dt_now
        zone_counts == get_zone_counts(dt_node_data, now)
    IN  /\ dt_total_updates > 0
        /\ dt_now' = now
        /\ dt_node_data' = with_ages(dt_node_data, now)
        /\ dt_zone_counts' = zone_counts
        /\ dt_positions' = estimated_positions(zone_counts, corner, 1)
        /\ UNCHANGED <<dt_count_history, dt_peak_count, dt_total_updates>>
        /\ dt_lastCall' = "get_estimated_positions"

(***************************************************************************)
(* UDPReceiver                                                             *)
(*                                                                         *)
(* Times are integers in ms.  The listener thread runs _process_data on    *)
(* each packet it receives while a reader thread calls get_latest and      *)
(* get_all_latest; each labelled step is one access to the shared state.   *)
(* A packet is [id, seq, stamp]: seq tells the packets apart and stamp is  *)
(* the current_time _process_data took for it.  No callback is registered. *)
(***************************************************************************)
timeout_seconds == 3000

\* bounds of the explored runs
UR_MaxPackets == 3
UR_MaxTime == 6000
UR_Step == 1500
UR_Ids == {"A", "B"}
NoId == "no id"

\* fault model: the lock lets a thread in while another one holds it
lock_free_always(lock) == TRUE

\* "with self.lock" is entered when no thread holds the lock
lock_free(lock) == lock = "free"

\* fault model: a node is dropped by get_all_latest already at the timeout
alive_before(current_time, timestamp) == current_time - timestamp < timeout_seconds

\* get_all_latest: current_time - timestamp <= self.timeout_seconds
alive(current_time, timestamp) == current_time - timestamp <= timeout_seconds

\* get_latest: time.time() - last_seen_time.get(node_id, 0) > self.timeout_seconds
timed_out(now, node_id) ==
  now - (IF node_id \in DOMAIN ur_last_seen_time THEN ur_last_seen_time[node_id] ELSE 0)
    > timeout_seconds

\* d[k] = v on a dict
dict_set(d, k, v) == [x \in DOMAIN d \cup {k} |-> IF x = k THEN v ELSE d[x]]

\* __init__ of either class
UDPReceiver_init ==
  /\ ur_latest_data = << >>
  /\ ur_last_seen_time = << >>
  /\ ur_lock = "free"
  /\ ur_data_queue = << >>
  /\ ur_now = 0
  /\ ur_l_data = << >> /\ ur_l_time = 0
  /\ ur_r_pc = "idle" /\ ur_r_op = "none" /\ ur_r_node = "none"
  /\ ur_r_time = 0 /\ ur_r_todo = {} /\ ur_r_result = << >>
  /\ ur_sent = 0
  /\ ur_seen_offline = {}
  /\ ur_l_cb = 0
  /\ ur_bad = 0

\* __init__ followed by a start() that succeeded, no callback registered: the
\* listener thread is about to receive
URInit ==
  /\ UDPReceiver_init
  /\ ur_class = "udp_receiver"
  /\ ur_running = TRUE
  /\ ur_thread = "alive"
  /\ ur_socket = "open"
  /\ ur_callbacks = << >>
  /\ ur_l_pc = "recv"
  /\ ur_s_pc = "ready"
  /\ ur_started = TRUE

\* bound of the explored callback lists
UR_MaxCallbacks == 1

\* the callback lists explored
UR_CallbackLists ==
  UNION {[1..n -> {"returns", "raises"}] : n \in 0..UR_MaxCallbacks}

\* __init__ of one of the two classes, and on_data for each callback (the
\* ingestion class has none); nothing is started
URInitConstructed ==
  /\ UDPReceiver_init
  /\ ur_class \in {"udp_receiver", "ingestion"}
  /\ ur_running = FALSE
  /\ ur_thread = "None"
  /\ ur_socket = "None"
  /\ ur_callbacks \in UR_CallbackLists
  /\ ur_class = "ingestion" => ur_callbacks = << >>
  /\ ur_l_pc = "none"
  /\ ur_s_pc = "init"
  /\ ur_started = FALSE

\* time passes
URTick ==
  /\ ur_now + UR_Step <= UR_MaxTime
  /\ ur_now' = ur_now + UR_Step
  /\ UNCHANGED <<ur_shared, ur_listener, ur_reader, ur_hist>>

\* _process_data, up to the lock: a packet without "id" is ignored, for any
\* other one current_time is taken
URProcessData ==
  \E id \in UR_Ids \cup {NoId} :
    /\ ur_l_pc = "recv"
    /\ ur_sent < UR_MaxPackets
    /\ ur_sent' = ur_sent + 1
    /\ IF id = NoId
       THEN UNCHANGED ur_listener
       ELSE /\ ur_l_data' = [id |-> id, seq |-> ur_sent + 1, stamp |-> ur_now]
            /\ ur_l_time' = ur_now
            /\ ur_l_pc' = "lock"
    /\ UNCHANGED <<ur_shared, ur_reader, ur_now, ur_seen_offline>>

\* _process_data: with self.lock
URListenerLock ==
  /\ ur_l_pc = "lock"
  /\ lock_free(ur_lock)
  /\ ur_lock' = "listener"
  /\ ur_l_pc' = "data"
  /\ UNCHANGED <<ur_latest_data, ur_last_seen_time, ur_data_queue, ur_l_data, ur_l_time,
                 ur_reader, ur_now, ur_hist>>

\* _process_data: self.latest_data[node_id] = data
URStoreData ==
  /\ ur_l_pc = "data"
  /\ ur_latest_data' = dict_set(ur_latest_data, ur_l_data.id, ur_l_data)
  /\ ur_l_pc' = "time"
  /\ UNCHANGED <<ur_last_seen_time, ur_lock, ur_data_queue, ur_l_data, ur_l_time,
                 ur_reader, ur_now, ur_hist>>

\* _process_data: self.last_seen_time[node_id] = current_time
URStoreTime ==
  /\ ur_l_pc = "time"
  /\ ur_last_seen_time' = dict_set(ur_last_seen_time, ur_l_data.id, ur_l_time)
  /\ ur_l_pc' = "unlock"
  /\ UNCHANGED <<ur_latest_data, ur_lock, ur_data_queue, ur_l_data, ur_l_time,
                 ur_reader, ur_now, ur_hist>>

\* _process_data: the lock is released and the packet put on the queue
URListenerUnlock ==
  /\ ur_l_pc = "unlock"
  /\ ur_lock' = "free"
  /\ ur_data_queue' = Append(ur_data_queue, ur_l_data)
  /\ ur_l_pc' = "recv"
  /\ UNCHANGED <<ur_latest_data, ur_last_seen_time, ur_l_data, ur_l_time,
                 ur_reader, ur_now, ur_hist>>

\* the reader returns result and leaves the lock
reader_return(result) ==
  /\ ur_r_result' = result
  /\ ur_r_pc' = "idle"
  /\ ur_lock' = "free"
  /\ ur_r_todo' = {}

\* get_latest(node_id) is called
URGetLatest ==
  \E node_id \in UR_Ids :
    /\ ur_r_pc = "idle"
    /\ ur_r_op' = "get_latest" /\ ur_r_node' = node_id
    /\ ur_r_pc' = "gl_lock"
    /\ ur_r_result' = << >>
    /\ UNCHANGED <<ur_shared, ur_listener, ur_r_time, ur_r_todo, ur_now, ur_hist>>

\* get_all_latest() is called: current_time = time.time()
URGetAllLatest ==
  /\ ur_r_pc = "idle"
  /\ ur_r_op' = "get_all_latest" /\ ur_r_node' = "none"
  /\ ur_r_time' = ur_now
  /\ ur_r_pc' = "ga_lock"
  /\ ur_r_result' = << >>
  /\ UNCHANGED <<ur_shared, ur_listener, ur_r_todo, ur_now, ur_hist>>

\* get_latest, get_all_latest: with self.lock
URReaderLock ==
  /\ ur_r_pc \in {"gl_lock", "ga_lock"}
  /\ lock_free(ur_lock)
  /\ ur_lock' = "reader"
  /\ ur_r_pc' = IF ur_r_pc = "gl_lock" THEN "gl_known" ELSE "ga_loop"
  /\ ur_r_todo' = IF ur_r_pc = "gl_lock" THEN {} ELSE DOMAIN ur_last_seen_time
  /\ UNCHANGED <<ur_latest_data, ur_last_seen_time, ur_data_queue, ur_listener,
                 ur_r_op, ur_r_node, ur_r_time, ur_r_result, ur_now, ur_hist>>

\* get_latest: None for a node that is not in latest_data
URGetLatestKnown ==
  /\ ur_r_pc = "gl_known"
  /\ IF ur_r_node \notin DOMAIN ur_latest_data
     THEN reader_return(<< >>)
     ELSE ur_r_pc' = "gl_time" /\ UNCHANGED <<ur_lock, ur_r_todo, ur_r_result>>
  /\ UNCHANGED <<ur_latest_data, ur_last_seen_time, ur_data_queue, ur_listener,
                 ur_r_op, ur_r_node, ur_r_time, ur_now, ur_hist>>

\* get_latest: None for a node whose last packet is older than the timeout
URGetLatestTime ==
  /\ ur_r_pc = "gl_time"
  /\ ur_r_time' = ur_now
  /\ IF timed_out(ur_now, ur_r_node)
     THEN /\ reader_return(<< >>)
          /\ ur_seen_offline' = ur_seen_offline \cup {ur_r_node}
     ELSE /\ ur_r_pc' = "gl_data"
          /\ ur_r_result' =
               dict_set(<< >>, ur_r_node,
                        [data |-> << >>,
                         seen |-> IF ur_r_node \in DOMAIN ur_last_seen_time
                                  THEN ur_last_seen_time[ur_r_node] ELSE 0])
          /\ UNCHANGED <<ur_lock, ur_r_todo, ur_seen_offline>>
  /\ UNCHANGED <<ur_latest_data, ur_last_seen_time, ur_data_queue, ur_listener,
                 ur_r_op, ur_r_node, ur_now, ur_sent>>

\* get_latest: return self.latest_data[node_id]
URGetLatestData ==
  /\ ur_r_pc = "gl_data"
  /\ reader_return([ur_r_result EXCEPT ![ur_r_node].data = ur_latest_data[ur_r_node]])
  /\ UNCHANGED <<ur_latest_data, ur_last_seen_time, ur_data_queue, ur_listener,
                 ur_r_op, ur_r_node, ur_r_time, ur_now, ur_hist>>

\* get_all_latest: one turn of the loop over last_seen_time.items(), and the
\* return after the last one
URGetAllLoop ==
  /\ ur_r_pc = "ga_loop"
  /\ IF ur_r_todo = {}
     THEN /\ reader_return(ur_r_result)
          /\ UNCHANGED ur_seen_offline
     ELSE LET node_id == CHOOSE n \in ur_r_todo : TRUE
              timestamp == ur_last_seen_time[node_id]
          IN  /\ ur_r_todo' = ur_r_todo \ {node_id}
              /\ IF alive(ur_r_time, timestamp)
                 THEN /\ ur_r_result' =
                           dict_set(ur_r_result, node_id,
                                    [data |-> ur_latest_data[node_id], seen |-> timestamp])
                      /\ UNCHANGED ur_seen_offline
                 ELSE /\ ur_seen_offline' = ur_seen_offline \cup {node_id}
                      /\ UNCHANGED ur_r_result
              /\ UNCHANGED <<ur_lock, ur_r_pc>>
  /\ UNCHANGED <<ur_latest_data, ur_last_seen_time, ur_data_queue, ur_listener,
                 ur_r_op, ur_r_node, ur_r_time, ur_now, ur_sent>>

(***************************************************************************)
(* start(), stop() and the listener loop of the two UDPReceiver classes.   *)
(* One thread calls start() and then stop(); the listener thread runs      *)
(* _listen_loop (python/udp_receiver.py) or _receive_loop                  *)
(* (python/ingestion/udp_receiver.py).  No reader thread runs here, so the *)
(* lock is always free when the listener asks for it.                      *)
(***************************************************************************)

\* what a received datagram can be, beside a packet with an id of UR_Ids:
\* bytes that are not UTF-8, text that is not JSON, a JSON value that is not
\* an object (a number), an object without "id"
UR_BadPackets == {"not utf-8", "not json", "not an object", NoId}

\* bound of the datagrams received in a run with start() and stop()
UR_MaxDatagrams == 2

\* fault model: the socket has no timeout and recvfrom waits for a datagram
recv_blocks(socket) == FALSE

\* settimeout(1.0): recvfrom on the bound socket raises socket.timeout when
\* no datagram arrives within a second
recv_times_out(socket) == socket = "open"

\* where the loop of the listener goes when the body of its try raises:
\* "while" (the loop goes on) or "done" (the thread ends).  _listen_loop
\* catches json.JSONDecodeError inside and every Exception outside;
\* _receive_loop goes on after socket.timeout, breaks on OSError, and an
\* AttributeError (self.socket is None) ends the thread
loop_except(class, error) ==
  IF class = "udp_receiver" THEN "while"
  ELSE IF error = "socket.timeout" THEN "while"
  ELSE "done"

\* the listener leaves its loop body for pc
listener_goes(pc) ==
  /\ ur_l_pc' = pc
  /\ ur_thread' = IF pc = "done" THEN "terminated" ELSE ur_thread

\* start(): the socket is created and bound; when bind raises, running is
\* set back to False and no thread is started
URStart ==
  \E bound \in BOOLEAN :
    /\ ur_s_pc = "init"
    /\ ~ur_running
    /\ ur_running' = bound
    /\ ur_socket' = IF bound THEN "open" ELSE "unbound"
    /\ ur_thread' = IF bound THEN "alive" ELSE "None"
    /\ ur_l_pc' = IF bound THEN "while" ELSE "none"
    /\ ur_started' = bound
    /\ ur_s_pc' = "ready"
    /\ UNCHANGED <<ur_shared, ur_l_data, ur_l_time, ur_reader, ur_now, ur_hist,
                   ur_class, ur_callbacks, ur_l_cb, ur_bad>>

\* stop(), up to the join: running is set to False; the ingestion class
\* returns at once when it is not running
URStop ==
  /\ ur_s_pc = "ready"
  /\ IF ur_class = "ingestion" /\ ~ur_running
     THEN ur_s_pc' = "stopped" /\ UNCHANGED ur_running
     ELSE ur_s_pc' = "join" /\ ur_running' = FALSE
  /\ UNCHANGED <<ur_shared, ur_listener, ur_reader, ur_now, ur_hist,
                 ur_class, ur_thread, ur_socket, ur_callbacks, ur_l_cb, ur_started, ur_bad>>

\* stop(): self.thread.join() returns when the thread has ended;
\* receiver_thread.join(timeout=2.0) of the ingestion class also returns
\* when the two seconds are over
URJoin ==
  /\ ur_s_pc = "join"
  /\ \/ ur_thread \in {"None", "terminated"}
     \/ ur_class = "ingestion"
  /\ ur_s_pc' = "close"
  /\ UNCHANGED <<ur_shared, ur_listener, ur_reader, ur_now, ur_hist,
                 ur_class, ur_running, ur_thread, ur_socket, ur_callbacks, ur_l_cb,
                 ur_started, ur_bad>>

\* stop(): self.socket.close(); the ingestion class then sets self.socket
\* to None
URClose ==
  /\ \/ /\ ur_s_pc = "close"
        /\ ur_socket' = IF ur_socket = "None" THEN "None" ELSE "closed"
        /\ ur_s_pc' = IF ur_class = "ingestion" /\ ur_socket # "None"
                      THEN "unset" ELSE "stopped"
     \/ /\ ur_s_pc = "unset"
        /\ ur_socket' = "None"
        /\ ur_s_pc' = "stopped"
  /\ UNCHANGED <<ur_shared, ur_listener, ur_reader, ur_now, ur_hist,
                 ur_class, ur_running, ur_thread, ur_callbacks, ur_l_cb, ur_started,
                 ur_bad>>

\* while self.running
URLoopCheck ==
  /\ ur_l_pc = "while"
  /\ listener_goes(IF ur_running THEN "recv" ELSE "done")
  /\ UNCHANGED <<ur_shared, ur_l_data, ur_l_time, ur_reader, ur_now, ur_hist,
                 ur_class, ur_running, ur_socket, ur_callbacks, ur_l_cb, ur_s_pc,
                 ur_started, ur_bad>>

\* recvfrom raises: socket.timeout on the open socket, OSError on a closed
\* one, AttributeError when self.socket is None
URRecvRaises ==
  /\ ur_l_pc = "recv"
  /\ \/ /\ recv_times_out(ur_socket)
        /\ listener_goes(loop_except(ur_class, "socket.timeout"))
     \/ /\ ur_socket = "closed"
        /\ listener_goes(loop_except(ur_class, "OSError"))
     \/ /\ ur_socket = "None"
        /\ listener_goes(loop_except(ur_class, "AttributeError"))
  /\ UNCHANGED <<ur_shared, ur_l_data, ur_l_time, ur_reader, ur_now, ur_hist,
                 ur_class, ur_running, ur_socket, ur_callbacks, ur_l_cb, ur_s_pc,
                 ur_started, ur_bad>>

\* recvfrom returns a datagram.  _listen_loop: bytes that do not decode and
\* a JSON number raise inside the outer try, text that is not JSON is
\* caught by the inner one, an object without "id" makes _process_data
\* return; for any other packet _process_data takes current_time and goes
\* for the lock.  _process_packet of the ingestion class catches every
\* exception itself and stores a packet with an id in one go under its lock.
URRecvPacket ==
  \E kind \in UR_Ids \cup UR_BadPackets :
    /\ ur_l_pc = "recv"
    /\ ur_socket = "open"
    /\ ur_sent < UR_MaxDatagrams
    /\ ur_sent' = ur_sent + 1
    /\ IF kind \in UR_BadPackets
       THEN /\ ur_bad' = ur_bad + 1
            /\ listener_goes(IF /\ ur_class = "udp_receiver"
                                 /\ kind \in {"not utf-8", "not an object"}
                              THEN loop_except(ur_class, "Exception")
                              ELSE "while")
            /\ UNCHANGED <<ur_shared, ur_l_data, ur_l_time>>
       ELSE LET data == [id |-> kind, seq |-> ur_sent + 1, stamp |-> ur_now]
            IN  /\ UNCHANGED <<ur_bad, ur_thread>>
                /\ IF ur_class = "udp_receiver"
                   THEN /\ ur_l_data' = data
                        /\ ur_l_time' = ur_now
                        /\ ur_l_pc' = "lock"
                        /\ UNCHANGED ur_shared
                   ELSE /\ ur_latest_data' = dict_set(ur_latest_data, kind, data)
                        /\ ur_last_seen_time' = dict_set(ur_last_seen_time, kind, ur_now)
                        /\ ur_l_pc' = "while"
                        /\ UNCHANGED <<ur_lock, ur_data_queue, ur_l_data, ur_l_time>>
    /\ UNCHANGED <<ur_reader, ur_now, ur_seen_offline,
                   ur_class, ur_running, ur_socket, ur_callbacks, ur_l_cb, ur_s_pc,
                   ur_started>>

\* _process_data: the lock is released, the packet is put on the queue and
\* the loop over self.callbacks begins
URListenerPut ==
  /\ ur_l_pc = "unlock"
  /\ ur_lock' = "free"
  /\ ur_data_queue' = Append(ur_data_queue, ur_l_data)
  /\ ur_l_pc' = "callbacks"
  /\ ur_l_cb' = 1
  /\ UNCHANGED <<ur_latest_data, ur_last_seen_time, ur_l_data, ur_l_time,
                 ur_reader, ur_now, ur_hist,
                 ur_class, ur_running, ur_thread, ur_socket, ur_callbacks, ur_s_pc,
                 ur_started, ur_bad>>

\* _process_data: one callback is called, and what it raises is caught and
\* printed; after the last one _process_data returns to the loop
URCallback ==
  /\ ur_l_pc = "callbacks"
  /\ IF ur_l_cb > Len(ur_callbacks)
     THEN ur_l_pc' = "while" /\ ur_l_cb' = 0
     ELSE ur_l_pc' = "callbacks" /\ ur_l_cb' = ur_l_cb + 1
  /\ UNCHANGED <<ur_shared, ur_l_data, ur_l_time, ur_reader, ur_now, ur_hist,
                 ur_class, ur_running, ur_thread, ur_socket, ur_callbacks, ur_s_pc,
                 ur_started, ur_bad>>

\* the steps of the listener thread that need no datagram
URListenerRuns ==
  \/ URLoopCheck \/ URRecvRaises \/ URCallback \/ URListenerPut
  \/ (URListenerLock \/ URStoreData \/ URStoreTime) /\ UNCHANGED ur_life

\* the steps of stop() after running is set to False
URStopRuns == URJoin \/ URClose

(***************************************************************************)
(* Risk score to state: SurgeEngine._risk_to_state and                     *)
(* config.get_state_from_risk, risk scores in 1/6000                       *)
(***************************************************************************)

\* STATE_THRESHOLDS of config.py, in 1/6000
CONFIG_STATE_THRESHOLDS == <<900, 2100, 3300, 4500>>

\* get_state_from_risk: state_index is i + 1 for the last threshold (i from 0)
\* that the risk score reaches, 0 if it reaches none
get_state_from_risk(risk_score) ==
  LET reached == {i \in 1..Len(CONFIG_STATE_THRESHOLDS) :
                    risk_score >= CONFIG_STATE_THRESHOLDS[i]}
  IN  IF reached = {} THEN 0
      ELSE CHOOSE i \in reached : \A j \in reached : j <= i

\* the risk scores explored: a grid over [0, 1], each threshold and the
\* values next to it
RS_Grid == 50
RS_Risks ==
  {RS_Grid * k : k \in 0..(6000 \div RS_Grid)}
    \cup {t + d : t \in {900, 2100, 3300, 4500}, d \in {0 - 1, 0, 1}}

\* two risk scores, neither mapped yet
risk_pair(r1, r2) ==
  /\ rs_risk = <<r1, r2>>
  /\ rs_state = <<"None", "None">>
  /\ rs_index = <<0, 0>>

RSInit == risk_pair(0, 0)

RSInitAny == \E r1 \in RS_Risks, r2 \in RS_Risks : risk_pair(r1, r2)

\* both mappings applied to both risk scores
RSMap ==
  /\ rs_state = <<"None", "None">>
  /\ rs_state' = <<risk_to_state(rs_risk[1]), risk_to_state(rs_risk[2])>>
  /\ rs_index' = <<get_state_from_risk(rs_risk[1]), get_state_from_risk(rs_risk[2])>>
  /\ UNCHANGED rs_risk

(***************************************************************************)
(* Specifications: one per component, each driving its own component only  *)
(***************************************************************************)
Init ==
  PDInit /\ ZDInit /\ SEInit /\ SE2Init /\ AMInit /\ CDInit /\ DTInit /\ URInit /\ RSInit /\ RVInit

PDNext == PDReading /\ UNCHANGED <<zd_vars, se_vars, se2_vars, am_vars, cd_vars, dt_vars, ur_vars, rs_vars, rv_vars>>

PDResetNext == (PDReading \/ PDReset) /\ UNCHANGED <<zd_vars, se_vars, se2_vars, am_vars, cd_vars, dt_vars, ur_vars, rs_vars, rv_vars>>

ZDNext == ZDReading /\ UNCHANGED <<pd_vars, se_vars, se2_vars, am_vars, cd_vars, dt_vars, ur_vars, rs_vars, rv_vars>>

SENext == SECall /\ UNCHANGED <<pd_vars, zd_vars, se2_vars, am_vars, cd_vars, dt_vars, ur_vars, rs_vars, rv_vars>>

SETickNext == SETickCall /\ UNCHANGED <<pd_vars, zd_vars, se2_vars, am_vars, cd_vars, dt_vars, ur_vars, rs_vars, rv_vars>>

SEConfigNext == (SEConstruct \/ SECall) /\ UNCHANGED <<pd_vars, zd_vars, se2_vars, am_vars, cd_vars, dt_vars, ur_vars, rs_vars, rv_vars>>

SEWideNext == SEWideCall /\ UNCHANGED <<pd_vars, zd_vars, se2_vars, am_vars, cd_vars, dt_vars, ur_vars, rs_vars, rv_vars>>

SETwinNext == SETwinCall /\ UNCHANGED <<pd_vars, zd_vars, am_vars, cd_vars, dt_vars, ur_vars, rs_vars, rv_vars>>

AMNext == (AMRegister \/ AMTrigger) /\ UNCHANGED <<pd_vars, zd_vars, se_vars, se2_vars, cd_vars, dt_vars, ur_vars, rs_vars, rv_vars>>

CDNext == CDUpdate /\ UNCHANGED <<pd_vars, zd_vars, se_vars, se2_vars, am_vars, dt_vars, ur_vars, rs_vars, rv_vars>>

AMResetNext == (AMTrigger \/ AMReset \/ AMClearHistory) /\ UNCHANGED <<pd_vars, zd_vars, se_vars, se2_vars, cd_vars, dt_vars, ur_vars, rs_vars, rv_vars>>

CDRunNext == CDRunUpdate /\ UNCHANGED <<pd_vars, zd_vars, se_vars, se2_vars, am_vars, dt_vars, ur_vars, rs_vars, rv_vars>>

AMStateNext == AMStateChange /\ UNCHANGED <<pd_vars, zd_vars, se_vars, se2_vars, cd_vars, dt_vars, ur_vars, rs_vars, rv_vars>>

DTNext == DTUpdateScan /\ UNCHANGED <<pd_vars, zd_vars, se_vars, se2_vars, am_vars, cd_vars, ur_vars, rs_vars, rv_vars>>

DTZonesNext == (DTUpdateScan \/ DTGetPositions) /\ UNCHANGED <<pd_vars, zd_vars, se_vars, se2_vars, am_vars, cd_vars, ur_vars, rs_vars, rv_vars>>

URNext ==
  /\ \/ URTick
     \/ URProcessData \/ URListenerLock \/ URStoreData \/ URStoreTime \/ URListenerUnlock
     \/ URGetLatest \/ URGetAllLatest \/ URReaderLock
     \/ URGetLatestKnown \/ URGetLatestTime \/ URGetLatestData \/ URGetAllLoop
  /\ UNCHANGED <<pd_vars, zd_vars, se_vars, se2_vars, am_vars, cd_vars, dt_vars, rs_vars, rv_vars,
                 ur_life>>

URStopNext ==
  /\ \/ URTick /\ UNCHANGED ur_life
     \/ URStart \/ URStop \/ URStopRuns
     \/ URRecvPacket \/ URListenerRuns
  /\ UNCHANGED <<pd_vars, zd_vars, se_vars, se2_vars, am_vars, cd_vars, dt_vars, rs_vars, rv_vars>>

RSNext ==
  RSMap /\ UNCHANGED <<pd_vars, zd_vars, se_vars, se2_vars, am_vars, cd_vars, dt_vars, ur_vars, rv_vars>>

RVNext ==
  \/ PDResetRun /\ UNCHANGED <<zd_vars, se_vars, se2_vars, am_vars, cd_vars, dt_vars, ur_vars, rs_vars, rv_vars>>
  \/ (ZDTwinReading \/ ZDReset) /\ UNCHANGED <<pd_vars, se_vars, se2_vars, am_vars, cd_vars, dt_vars, ur_vars, rs_vars>>
  \/ (SEResetCall \/ SEReset) /\ UNCHANGED <<pd_vars, zd_vars, am_vars, cd_vars, dt_vars, ur_vars, rs_vars>>

Next ==
  \/ PDNext \/ PDResetNext \/ ZDNext \/ SENext \/ SETickNext \/ SEConfigNext \/ SEWideNext \/ SETwinNext
  \/ AMNext \/ AMResetNext \/ AMStateNext \/ CDNext \/ CDRunNext \/ DTNext \/ DTZonesNext \/ URNext \/ RSNext
  \/ RVNext \/ URStopNext

Spec == Init /\ [][Next]_vars

SpecPD == Init /\ [][PDNext]_vars

\* a PassageDetector that is also reset
SpecPDReset == Init /\ [][PDResetNext]_vars

SpecZD == Init /\ [][ZDNext]_vars

SpecSE == Init /\ [][SENext]_vars

InitConfigured ==
  PDInit /\ ZDInit /\ SEInit /\ SE2Init /\ AMInitConfigured /\ CDInit /\ DTInit /\ URInit
    /\ RSInit /\ RVInit

SpecAM == InitConfigured /\ [][AMNext]_vars

\* an AlertManager that is also reset and cleared
SpecAMReset == InitConfigured /\ [][AMResetNext]_vars

\* an AlertManager driven by state changes only
SpecAMState == Init /\ [][AMStateNext]_vars

SpecCD == Init /\ [][CDNext]_vars

\* a ClusterDetector fed positions along one row of the grid
SpecCDRun == Init /\ [][CDRunNext]_vars

SpecDT == Init /\ [][DTNext]_vars

\* a DeviceTracker that is also asked for its estimated positions
SpecDTZones == Init /\ [][DTZonesNext]_vars

\* the listener thread and one reader thread of a UDPReceiver
SpecUR == Init /\ [][URNext]_vars

InitRisk ==
  PDInit /\ ZDInit /\ SEInit /\ SE2Init /\ AMInit /\ CDInit /\ DTInit /\ URInit /\ RSInitAny /\ RVInit

\* the two mappings applied to every pair of risk scores of RS_Risks
SpecRisk == InitRisk /\ [][RSNext]_vars

InitConstructed ==
  PDInit /\ ZDInit /\ SEInit /\ SE2Init /\ AMInit /\ CDInit /\ DTInit /\ URInitConstructed
    /\ RSInit /\ RVInit

\* a UDPReceiver that is started and stopped while datagrams arrive.  The
\* listener thread keeps being scheduled and recvfrom returns or times out
\* within its second; the thread in stop() keeps being scheduled too.
SpecURStop ==
  InitConstructed /\ [][URStopNext]_vars
    /\ WF_ur_vars(URListenerRuns) /\ WF_ur_vars(URStopRuns)

InitReset ==
  PDInit /\ ZDInit /\ SEInit /\ SE2Init /\ AMInit /\ CDInit /\ DTInit /\ URInit /\ RSInit
    /\ RVInitAny

\* a PassageDetector, a ZoneDetector or a SurgeEngine that is reset, the last
\* two beside a newly constructed instance fed the same readings
SpecReset == InitReset /\ [][RVNext]_vars

\* an engine called at the regular tick SE_Tick
SpecSETick == Init /\ [][SETickNext]_vars

\* engines constructed with the configurations of SE_Configs
SpecSEConfig == Init /\ [][SEConfigNext]_vars

\* one call of a fresh engine on a wide range of sensor data
SpecSEWide == Init /\ [][SEWideNext]_vars

\* two fresh engines fed one and the same sequence of sensor data
SpecSETwin == Init /\ [][SETwinNext]_vars

(***************************************************************************)
(* PassageDetector properties                                              *)
(***************************************************************************)

\* C1: as long as every reading fed so far was above PASSAGE_THRESHOLD,
\* passage_count has never been incremented.
C1_NoPassageWhileAbove == pd_allAbove => pd_passage_count = 0

\* C1 witness: a whole approach was processed and abandoned with every reading
\* above PASSAGE_THRESHOLD (the person came within presence range and left).
C1_Witness ==
  pd_allAbove /\ pd_total_approaches > 0 /\ pd_false_approaches > 0 /\ pd_state = "BASELINE"

\* C2 (as claimed): a run of readings below PASSAGE_THRESHOLD that began while the
\* detector was ready (BASELINE or APPROACH) and has lasted MIN_PASSAGE_DURATION
\* has incremented passage_count exactly once.
C2_SustainedDipCountsOnce ==
  (pd_dipStart # None /\ pd_dipReady /\ pd_now - Val(pd_dipStart) >= MIN_PASSAGE_DURATION)
    => pd_dipCount = 1

\* C2, the parts the code keeps: a run below PASSAGE_THRESHOLD never counts twice,
\* nothing is counted in PASSAGE or COOLDOWN, and a second passage is counted
\* only after exactly one COOLDOWN period since the previous one.
C2_NeverCountsTwice ==
  [][/\ pd_dipCount' <= 1
     /\ (pd_passage_count' # pd_passage_count =>
           /\ pd_state \notin {"PASSAGE", "COOLDOWN"}
           /\ (pd_passage_count > 0 => pd_cooldowns = 1))]_vars

\* C3: passage_count changes only by +1, at a reading processed in APPROACH, and
\* only when every reading of the last MIN_PASSAGE_DURATION was below
\* PASSAGE_THRESHOLD (a reading at or above it restarts the wait).
C3_CountOnlyAfterSustainedDip ==
  [][pd_passage_count' # pd_passage_count =>
       /\ pd_state = "APPROACH"
       /\ pd_passage_count' = pd_passage_count + 1
       /\ pd_dipStart' # None
       /\ pd_now' - Val(pd_dipStart') >= MIN_PASSAGE_DURATION]_vars

\* C3 witness: a passage has just been counted, and an interrupted excursion
\* (an approach that saw the doorway close, then far) was abandoned uncounted.
C3_Witness ==
  /\ pd_event = "PASSAGE"
  /\ pd_passage_count = 1
  /\ pd_dipStart # None
  /\ pd_now - Val(pd_dipStart) >= MIN_PASSAGE_DURATION
  /\ pd_false_approaches > 0

\* C4 (as claimed): PASSAGE -> COOLDOWN happens only at a reading where every
\* reading of the preceding RETURN_DURATION was above RETURN_THRESHOLD.
C4_CooldownOnlyAfterSustainedReturn ==
  [][(pd_state = "PASSAGE" /\ pd_state' = "COOLDOWN") =>
       /\ pd_farStart' # None
       /\ pd_now' - Val(pd_farStart') >= RETURN_DURATION]_vars

\* C5 (as claimed): APPROACH -> BASELINE happens only at a reading where every
\* reading of the preceding RETURN_DURATION was above RETURN_THRESHOLD; it counts
\* one false approach and no passage.
C5_FalseApproachOnlyAfterSustainedReturn ==
  [][(pd_state = "APPROACH" /\ pd_state' = "BASELINE") =>
       /\ pd_farStart' # None
       /\ pd_now' - Val(pd_farStart') >= RETURN_DURATION
       /\ pd_false_approaches' = pd_false_approaches + 1
       /\ pd_passage_count' = pd_passage_count]_vars

(***************************************************************************)
(* ZoneDetector properties                                                 *)
(***************************************************************************)

\* C6 (as claimed): while the fed readings alternate between below and at/above
\* ZONE_CROWDED_DIST, whatever the motion value and the committed state the
\* alternation started from, the committed state stays what it was.
C6_FlickerKeepsState == zd_altLen >= 1 => zd_state = zd_anchor

\* C6 (amended): the same, provided the alternation holds no reading with
\* motion = 1 and ZONE_CROWDED_DIST <= distance < ZONE_CLEAR_DIST fed while the
\* committed state was not OCCUPIED (such a reading commits OCCUPIED at once).
C6_FlickerKeepsStateUnlessOccupied ==
  (zd_altLen >= 1 /\ ~zd_altOcc) => zd_state = zd_anchor

\* C6 witness: an alternation of three or more readings, started from OCCUPIED,
\* that leaves a timed target (CROWDED) pending.
C6_Witness ==
  /\ zd_altLen >= 3 /\ ~zd_altOcc
  /\ zd_anchor = "OCCUPIED" /\ zd_state = "OCCUPIED"
  /\ zd_pending_state = "CROWDED"
  /\ zd_last_timestamp >= CLEAR_CONFIRM_TIME

\* C7: the committed state becomes CLEAR (CROWDED) only at a reading that ends a
\* run of readings whose target was CLEAR (CROWDED) throughout and that has
\* lasted CLEAR_CONFIRM_TIME (CROWDED_CONFIRM_TIME); a reading whose target
\* differs from the previous one leaves no older pending timer running.
C7_Debounce ==
  [][/\ (zd_state' # zd_state /\ zd_state' \in {"CLEAR", "CROWDED"}) =>
          /\ zd_runTarget' = zd_state'
          /\ zd_last_timestamp' - Val(zd_runStart') >= confirm_times(zd_state')
     /\ (zd_runTarget' # zd_runTarget) =>
          zd_pending_start_time' \in {None, Some(zd_last_timestamp')}]_vars

\* C7 witness: a debounce has just completed: the last reading changed the
\* committed state from OCCUPIED to CROWDED, ending a run of CROWDED targets
\* that lasted exactly CROWDED_CONFIRM_TIME.
C7_Witness ==
  /\ zd_previous_state = "OCCUPIED" /\ zd_state = "CROWDED"
  /\ zd_runTarget = "CROWDED"
  /\ zd_last_timestamp - Val(zd_runStart) = CROWDED_CONFIRM_TIME

\* C8: a reading with ZONE_CROWDED_DIST <= distance < ZONE_CLEAR_DIST and
\* motion = 1 leaves the committed state OCCUPIED in that same call, from any
\* committed state; a reading with motion = 0 never changes the committed state
\* to OCCUPIED.
C8_OccupiedInstantOnlyWithMotion ==
  [][/\ (zd_last_pir' = 1 /\ ZONE_CROWDED_DIST <= zd_last_distance'
           /\ zd_last_distance' < ZONE_CLEAR_DIST) => zd_state' = "OCCUPIED"
     /\ (zd_last_pir' = 0 /\ zd_state' = "OCCUPIED") => zd_state = "OCCUPIED"]_vars

\* C8 witness: the last reading (motion = 1, mid-range) changed the committed
\* state from CROWDED to OCCUPIED in one call.
C8_Witness ==
  /\ zd_previous_state = "CROWDED" /\ zd_state = "OCCUPIED"
  /\ zd_last_pir = 1
  /\ zd_last_distance >= ZONE_CROWDED_DIST /\ zd_last_distance < ZONE_CLEAR_DIST

(***************************************************************************)
(* SurgeEngine properties                                                  *)
(***************************************************************************)

\* C9: the committed system state changes only to the state that has been the
\* target on every call for at least ESCALATE_DELAY (when it ranks higher than
\* the committed state) or DEESCALATE_DELAY (when it ranks lower); so a
\* committed SURGE is not lowered by CLEAR readings before DEESCALATE_DELAY of
\* them.
C9_Hysteresis ==
  [][se_state' # se_state =>
       /\ se_runTarget' = se_state'
       /\ se_now' - Val(se_runStart') >=
            (IF Rank(se_state') > Rank(se_state) THEN ESCALATE_DELAY
                                                 ELSE DEESCALATE_DELAY)]_vars

\* C9 witness: the last call lowered a committed SURGE to CLEAR, after CLEAR had
\* been the target for DEESCALATE_DELAY.
C9_Witness ==
  /\ se_prevState = "SURGE" /\ se_state = "CLEAR"
  /\ se_runTarget = "CLEAR"
  /\ se_now - Val(se_runStart) >= DEESCALATE_DELAY

\* C10 (as claimed): while all nodes report 40 cm with motion 1, every change of
\* the committed state is a step to the next rank (CLEAR, NORMAL, ELEVATED,
\* CRITICAL, SURGE in order, none skipped).
C10_EscalatesInRankOrder ==
  [][(se_last_data' = All40 /\ se_state' # se_state) =>
       Rank(se_state') = Rank(se_state) + 1]_vars

(***************************************************************************)
(* AlertManager properties                                                 *)
(***************************************************************************)

\* an alert with the given value of a field (level or type) went out less than
\* COOLDOWN_SECONDS before time t
EmittedWithin(field, value, t) ==
  \E i \in 1..Len(am_emitted) :
    /\ am_emitted[i][field] = value
    /\ t - am_emitted[i].timestamp < am_config.COOLDOWN_SECONDS

\* fewer than MAX_ALERTS_PER_MINUTE alerts went out in the 60 seconds up to t
RateAllows(t) ==
  Cardinality({i \in 1..Len(am_emitted) : am_emitted[i].timestamp >= t - RATE_WINDOW})
    < am_config.MAX_ALERTS_PER_MINUTE

C13_RateLimit ==
  [][am_calls' = am_calls + 1 =>
       /\ \A i \in 1..Len(am_emitted') :
            Cardinality({j \in 1..Len(am_emitted') :
                           /\ am_emitted'[j].timestamp >= am_emitted'[i].timestamp - RATE_WINDOW
                           /\ am_emitted'[j].timestamp <= am_emitted'[i].timestamp})
              <= am_config.MAX_ALERTS_PER_MINUTE
       /\ ~RateAllows(am_now') =>
            /\ am_result' = "False"
            /\ am_suppressed_alerts' = am_suppressed_alerts + 1
            /\ am_emitted' = am_emitted]_vars

\* C13 witness: the last call was rejected by the rate limit alone: its
\* alert_type was out of cooldown and MAX_ALERTS_PER_MINUTE alerts had gone out
\* in the last 60 seconds.
C13_Witness ==
  /\ am_result = "False" /\ am_suppressed_alerts = 1
  /\ ~EmittedWithin("type", am_lastType, am_now)
  /\ ~RateAllows(am_now)
  /\ Len(am_emitted) = am_config.MAX_ALERTS_PER_MINUTE

\* C14: a trigger_alert call that passes the rate limit and the cooldown calls
\* every registered handler, in registration order, whether or not some of
\* them raise, returns True, and leaves the alert at the end of alert_history,
\* total_alerts one higher, the cooldown time of its alert_type and the newest
\* rate-limit record at the time of the call, and suppressed_alerts as it was.
C14_DispatchSurvivesHandlerError ==
  [][(/\ am_calls' = am_calls + 1
      /\ RateAllows(am_now')
      /\ ~EmittedWithin("type", am_lastType', am_now')) =>
       /\ am_dispatch'.called = [i \in 1..Len(am_handlers) |-> i]
       /\ am_result' = "True"
       /\ Len(am_alert_history') = Len(am_alert_history) + 1
       /\ am_alert_history'[Len(am_alert_history')].timestamp = am_now'
       /\ am_alert_history'[Len(am_alert_history')].level = am_lastLevel'
       /\ am_alert_history'[Len(am_alert_history')].type = am_lastType'
       /\ am_total_alerts' = am_total_alerts + 1
       /\ am_last_alert_time'[am_lastType'] = am_now'
       /\ am_alerts_this_minute' = Append(am_alerts_this_minute, am_now')
       /\ am_suppressed_alerts' = am_suppressed_alerts]_vars

\* C14 witness: an alert was accepted with a raising handler registered ahead
\* of a returning one, and both were called.
C14_Witness ==
  /\ am_handlers = <<"raises", "returns">>
  /\ am_result = "True"
  /\ am_dispatch.called = <<1, 2>>
  /\ am_total_alerts = 1 /\ Len(am_alert_history) = 1

(***************************************************************************)
(* Pipeline properties                                                     *)
(***************************************************************************)

\* C15 (as claimed): two fresh engines that were fed the identical sequence of
\* sensor data hold the same committed state, whenever the calls were made.
C15_SameInputsSameState == se2_state = se_state

\* C16: after every process_sensor_data call, a zone is reported OFFLINE exactly
\* when its node id is absent from the sensor data of that call (for any subset
\* of the nodes, the empty one included), and a zone that is present is reported
\* with one of the five distance-derived states.
C16_AbsentZoneOffline ==
  [][\A zone_id \in Nodes :
       /\ (zone_id \notin DOMAIN se_last_data') <=> (se_zone_states'[zone_id] = "OFFLINE")
       /\ (zone_id \in DOMAIN se_last_data') =>
            se_zone_states'[zone_id] \in {"SURGE", "CRITICAL", "ELEVATED", "NORMAL", "CLEAR"}]_vars

\* C16 witness: a call with node A alone, at 40 cm: zone A is reported SURGE and
\* zones B and C OFFLINE.
C16_Witness ==
  /\ DOMAIN se_last_data = {"A"}
  /\ se_last_data["A"].dist = 40
  /\ se_zone_states = [zone_id \in Nodes |-> IF zone_id = "A" THEN "SURGE" ELSE "OFFLINE"]

\* C17: after every process_sensor_data call, each of the five risk components
\* lies in [0, 1] (0..600 in 1/600) and the risk score lies in [0, 1] (0..6000
\* in 1/6000).
C17_RiskInUnitInterval ==
  se_component_risks # << >> =>
    /\ DOMAIN se_component_risks = DOMAIN RISK_WEIGHTS
    /\ \A k \in DOMAIN se_component_risks :
         se_component_risks[k] >= 0 /\ se_component_risks[k] <= 600
    /\ se_current_risk >= 0 /\ se_current_risk <= 6000

\* C17 witness: a call with a negative distance at the entry and no other node:
\* flow_imbalance and cluster_density are at 1, the risk is inside (0, 1).
C17_Witness ==
  /\ DOMAIN se_last_data = {"A"}
  /\ se_last_data["A"].dist < 0
  /\ se_component_risks.flow_imbalance = 600
  /\ se_component_risks.cluster_density = 600
  /\ se_current_risk > 0 /\ se_current_risk < 6000

\* C18 (as claimed): an engine that has processed sensor data holds RISK_WEIGHTS
\* that sum to 1.0 (a constructor call with other weights fails).
C18_OnlyValidConfigProcesses ==
  se_last_data # << >> => weights_valid(se_config.RISK_WEIGHTS)

(***************************************************************************)
(* ClusterDetector properties                                              *)
(***************************************************************************)

\* the cell of the i-th position handed to the last update
CellOf(i) == position_to_cell(cd_positions[i][1], cd_positions[i][2])

\* all positions handed to the last update fall in one grid cell
InOneCell == \A i, j \in 1..Len(cd_positions) : CellOf(i) = CellOf(j)

\* no two positions handed to the last update fall in the same grid cell
OnePerCell ==
  \A i, j \in 1..Len(cd_positions) : CellOf(i) = CellOf(j) => i = j

\* C19 (as claimed): after update(P) with all positions of P in one grid cell
\* and DENSITY_THRESHOLD of them or more, get_clusters() holds exactly one
\* cluster and its count is the number of positions in P.
C19_OneCellOneCluster ==
  (InOneCell /\ Len(cd_positions) >= DENSITY_THRESHOLD) =>
    /\ Len(get_clusters) = 1
    /\ get_clusters[1].count = Len(cd_positions)

\* C19 (amended): the same when the number of positions is at or above both
\* DENSITY_THRESHOLD and MIN_CLUSTER_SIZE.
C19_OneCellOneClusterFromMinSize ==
  (/\ InOneCell
   /\ Len(cd_positions) >= DENSITY_THRESHOLD
   /\ Len(cd_positions) >= MIN_CLUSTER_SIZE) =>
    /\ Len(get_clusters) = 1
    /\ get_clusters[1].count = Len(cd_positions)

\* C19 witness: four positions, not all equal, in one cell, reported as one
\* cluster of four.
C19_Witness ==
  /\ Len(cd_positions) = 4 /\ InOneCell
  /\ \E i, j \in 1..Len(cd_positions) : cd_positions[i] # cd_positions[j]
  /\ Len(get_clusters) = 1 /\ get_clusters[1].count = 4

\* C20: after update(P) with at most one position of P per grid cell (the empty
\* list included), get_clusters() is empty and get_cluster_risk_score() is 0.
C20_ScatteredNoCluster ==
  OnePerCell => (get_clusters = << >> /\ get_cluster_risk_score = 0)

\* C20 witness: four positions in four cells, three of the cells connected
\* through neighbours, and no cluster.
C20_Witness ==
  /\ Len(cd_positions) = 4 /\ OnePerCell
  /\ \E i, j \in 1..Len(cd_positions) : CellOf(i) \in neighbors(CellOf(j))
  /\ cd_clusters = << >>

\* the dense cells of the grid
DenseCells == {c \in Cells : cd_grid[c] >= DENSITY_THRESHOLD}

\* two cells that share a side
SharesSide(a, b) ==
  \/ (a[1] = b[1] /\ (a[2] - b[2] = 1 \/ b[2] - a[2] = 1))
  \/ (a[2] = b[2] /\ (a[1] - b[1] = 1 \/ b[1] - a[1] = 1))

\* the dense cells reached from the cells of S through shared sides
RECURSIVE SideClosure(_)
SideClosure(S) ==
  LET more == {c \in DenseCells \ S : \E d \in S : SharesSide(c, d)}
  IN  IF more = {} THEN S ELSE SideClosure(S \cup more)

\* the maximal sets of dense cells connected through shared sides
Components == {SideClosure({c}) : c \in DenseCells}

\* the number of positions in the cells of S
CountIn(S) == Cardinality({i \in 1..Len(cd_positions) : CellOf(i) \in S})

\* the set S is reported as one cluster, with the count of its cells
ReportedOnce(S) ==
  /\ Cardinality({i \in 1..Len(cd_clusters) : cd_clusters[i].cells = S}) = 1
  /\ \A i \in 1..Len(cd_clusters) :
       cd_clusters[i].cells = S => cd_clusters[i].count = CountIn(S)

\* no cluster holds cells of two different components
NoMerge ==
  \A i \in 1..Len(cd_clusters) : \E S \in Components : cd_clusters[i].cells \subseteq S

\* C21 (as claimed): every maximal set of dense cells connected through shared
\* sides is reported as one cluster whose count is the sum of its cells'
\* counts, and no cluster joins dense cells that touch only diagonally.
C21_ComponentsAreClusters ==
  /\ \A S \in Components : ReportedOnce(S)
  /\ NoMerge

\* C21 (amended): the same for every such set that holds MIN_CLUSTER_SIZE
\* positions or more.
C21_LargeComponentsAreClusters ==
  /\ \A S \in Components : CountIn(S) >= MIN_CLUSTER_SIZE => ReportedOnce(S)
  /\ NoMerge

\* C21 witness: the dense cells <<2, 2>> and <<3, 3>> touch only diagonally,
\* hold three positions or more each, and are reported as two clusters.
C21_Witness ==
  /\ DenseCells = {<<2, 2>>, <<3, 3>>}
  /\ cd_grid[<<2, 2>>] >= MIN_CLUSTER_SIZE /\ cd_grid[<<3, 3>>] >= MIN_CLUSTER_SIZE
  /\ Len(cd_clusters) = 2
  /\ {cd_clusters[1].cells, cd_clusters[2].cells} = {{<<2, 2>>}, {<<3, 3>>}}

\* the grid that holds the positions of the last update and nothing else
GridOfPositions == [cell \in Cells |-> CountIn({cell})]

\* C22: the grid and the cluster list after update(P) are a function of P
\* alone, whatever calls of update came before (the same P again included).
C22_FunctionOfPositions ==
  /\ cd_grid = GridOfPositions
  /\ cd_clusters = find_clusters(GridOfPositions)

\* C22 witness: the update before the last one left a cluster, and the last one,
\* on three positions in cell <<3, 3>> only, reports that cell alone.
C22_Witness ==
  /\ cd_hadClusters
  /\ Len(cd_positions) = MIN_CLUSTER_SIZE
  /\ \A i \in 1..Len(cd_positions) : CellOf(i) = <<3, 3>>
  /\ cd_grid[<<2, 2>>] = 0
  /\ Len(cd_clusters) = 1 /\ cd_clusters[1].count = MIN_CLUSTER_SIZE

(***************************************************************************)
(* DeviceTracker properties                                                *)
(***************************************************************************)

\* the nodes active at the time of the last update_scan
ActiveNow == get_active_nodes(dt_node_data, dt_now)

\* an active node with the maximum count
MaxNode ==
  CHOOSE n \in ActiveNow :
    \A o \in ActiveNow : dt_node_data[n].count >= dt_node_data[o].count

\* C23: with at least one active node, get_device_count() is the integer part
\* of WIFI_MULTIPLIER * (m + 0.3 * S), m the maximum count among the active
\* nodes and S the sum of the counts of all the other active nodes, those whose
\* count equals m included.
C23_FusionCountsAllOthers ==
  ActiveNow # {} =>
    get_device_count(dt_node_data, dt_now) =
      ((10 * dt_node_data[MaxNode].count
          + 3 * sum_counts(dt_node_data, ActiveNow \ {MaxNode})) * 14) \div 100

\* C27: the node identifiers for which the tracker holds state stay within the
\* set fixed at construction (the keys of node_positions); an update_scan with
\* another identifier registers no node.
C27_FixedNodeSet == DOMAIN dt_node_data \subseteq node_positions

(***************************************************************************)
(* AlertManager.process_state_change properties                            *)
(***************************************************************************)

\* the last process_state_change was a de-escalation / an escalation
DeEscalation ==
  am_changes > 0 /\ Rank(am_change.new_state) < Rank(am_change.old_state)
Escalation ==
  am_changes > 0 /\ Rank(am_change.new_state) > Rank(am_change.old_state)

\* C24: a de-escalation produces an alert of level INFO at most (here: INFO or
\* no alert), never a WARNING, CRITICAL or EMERGENCY one; an escalation to
\* ELEVATED produces a WARNING alert, one to CRITICAL or SURGE a CRITICAL or
\* EMERGENCY alert.
C24_LevelFollowsDirection ==
  /\ DeEscalation => am_change.level \in {"INFO", "None"}
  /\ (Escalation /\ am_change.new_state = "ELEVATED") => am_change.level = "WARNING"
  /\ (Escalation /\ am_change.new_state \in {"CRITICAL", "SURGE"}) =>
       am_change.level \in {"CRITICAL", "EMERGENCY"}

(***************************************************************************)
(* UDPReceiver properties                                                  *)
(***************************************************************************)

\* the reader returns from get_latest or get_all_latest in this step
ReaderReturns == ur_r_pc # "idle" /\ ur_r_pc' = "idle"

\* the nodes whose most recent packet arrived no more than timeout_seconds
\* before time t
Visible(t) ==
  {n \in DOMAIN ur_latest_data : t - ur_latest_data[n].stamp <= timeout_seconds}

\* C25: get_latest(n) returns the latest packet of n, and get_all_latest holds
\* n with its latest packet, exactly when the most recent packet of n arrived
\* no more than timeout_seconds before the time the call read; otherwise
\* get_latest returns None and get_all_latest leaves n out.
C25_VisibleWhileRecent ==
  [][ReaderReturns =>
       LET asked == IF ur_r_op = "get_latest" THEN {ur_r_node} ELSE DOMAIN ur_latest_data
       IN  /\ DOMAIN ur_r_result' = asked \cap Visible(ur_r_time')
           /\ \A n \in DOMAIN ur_r_result' : ur_r_result'[n].data = ur_latest_data[n]]_vars

\* C25 witness: a read found the node timed out, and the last get_latest
\* returns a later packet of that node, arrived after the timeout.
C25_Witness ==
  /\ ur_r_pc = "idle" /\ ur_r_op = "get_latest"
  /\ ur_r_node \in ur_seen_offline
  /\ ur_r_node \in DOMAIN ur_r_result
  /\ ur_r_result[ur_r_node].data.seq > 1
  /\ ur_r_result[ur_r_node].data.stamp > timeout_seconds

\* C26: under every interleaving of _process_data with a reader, the data a
\* reader gets for a node is a whole packet of that node together with the
\* last-seen time of that same packet, and outside _process_data's locked
\* region latest_data and last_seen_time describe the same packets.
C26_ConsistentSnapshot ==
  /\ \A n \in DOMAIN ur_r_result :
       ur_r_result[n].data # << >> =>
         /\ ur_r_result[n].data.id = n
         /\ ur_r_result[n].data.stamp = ur_r_result[n].seen
  /\ ur_lock # "listener" =>
       /\ DOMAIN ur_latest_data = DOMAIN ur_last_seen_time
       /\ \A n \in DOMAIN ur_latest_data : ur_latest_data[n].stamp = ur_last_seen_time[n]

\* C26 witness: get_latest holds the lock between its check of the last-seen
\* time and its read of the data, while _process_data waits for the lock with
\* a newer packet of the same node.
C26_Witness ==
  /\ ur_r_pc = "gl_data" /\ ur_lock = "reader"
  /\ ur_l_pc = "lock" /\ ur_l_data.id = ur_r_node
  /\ ur_l_data.stamp > ur_latest_data[ur_r_node].stamp

(***************************************************************************)
(* PassageDetector flow rate and state machine                             *)
(***************************************************************************)

\* C28: the flow_rate of a result is the number of recorded passages whose
\* time lies within the 60 seconds before the reading's timestamp, the passage
\* registered by that very reading included (the same passages as count).
C28_FlowRateCountsWindow ==
  pd_flow_rate =
    Cardinality({i \in 1..Len(pd_passage_timestamps) :
                   pd_passage_timestamps[i] >= pd_now - 60000})

\* the state changes of the PassageDetector state machine
PD_Transitions ==
  {<<"BASELINE", "APPROACH">>, <<"APPROACH", "PASSAGE">>, <<"APPROACH", "BASELINE">>,
   <<"PASSAGE", "COOLDOWN">>, <<"COOLDOWN", "BASELINE">>}

\* C29: every state change is one of BASELINE->APPROACH, APPROACH->PASSAGE,
\* APPROACH->BASELINE, PASSAGE->COOLDOWN, COOLDOWN->BASELINE; the cooldown
\* starts at the reading that enters COOLDOWN, and a reading in COOLDOWN,
\* whatever its distance, counts nothing and leads to BASELINE exactly when its
\* time is PASSAGE_COOLDOWN or more after that start.
C29_StateMachine ==
  [][/\ pd_state' # pd_state => <<pd_state, pd_state'>> \in PD_Transitions
     /\ (pd_state # "COOLDOWN" /\ pd_state' = "COOLDOWN") =>
          pd_cooldown_start_time' = Some(pd_now')
     /\ pd_state = "COOLDOWN" =>
          /\ pd_cooldown_start_time # None
          /\ pd_state' = (IF pd_now' - Val(pd_cooldown_start_time) >= PASSAGE_COOLDOWN
                          THEN "BASELINE" ELSE "COOLDOWN")
          /\ pd_passage_count' = pd_passage_count
          /\ pd_total_approaches' = pd_total_approaches
          /\ pd_false_approaches' = pd_false_approaches]_vars

\* C29 witness: after one passage the cooldown has ended, at a reading below
\* PASSAGE_THRESHOLD that was taken for nothing but its time.
C29_Witness ==
  /\ pd_state = "BASELINE" /\ pd_event = "CLEAR"
  /\ pd_last_distance < PASSAGE_THRESHOLD
  /\ pd_passage_count = 1 /\ pd_total_approaches = 1

(***************************************************************************)
(* Risk-to-state mapping                                                   *)
(***************************************************************************)

\* the state the thresholds 0.15, 0.35, 0.55, 0.75 give a risk score (1/6000)
BandOf(r) ==
  IF r < 900 THEN "CLEAR"
  ELSE IF r < 2100 THEN "NORMAL"
  ELSE IF r < 3300 THEN "ELEVATED"
  ELSE IF r < 4500 THEN "CRITICAL"
  ELSE "SURGE"

\* C30: the target state of a risk score r in [0, 1] is CLEAR for r < 0.15,
\* NORMAL for 0.15 <= r < 0.35, ELEVATED for 0.35 <= r < 0.55, CRITICAL for
\* 0.55 <= r < 0.75 and SURGE for r >= 0.75; the mapping is monotone in r and
\* its rank is the state index of config.get_state_from_risk(r).
C30_RiskToState ==
  rs_state[1] # "None" =>
    /\ \A k \in 1..2 : rs_state[k] = BandOf(rs_risk[k])
    /\ \A k \in 1..2 : Rank(rs_state[k]) = rs_index[k]
    /\ rs_risk[1] <= rs_risk[2] => Rank(rs_state[1]) <= Rank(rs_state[2])

\* C30 witness: a risk score exactly at 0.55 and one just below it are mapped
\* to CRITICAL and ELEVATED.
C30_Witness ==
  /\ rs_risk = <<3299, 3300>>
  /\ rs_state = <<"ELEVATED", "CRITICAL">>
  /\ rs_index = <<2, 3>>

(***************************************************************************)
(* C31: SurgeEngine escalation liveness.  While every call of a regular    *)
(* caller (tick shorter than ESCALATE_DELAY) has a target above the        *)
(* committed state, the committed state rises within a bounded time, here  *)
(* four times ESCALATE_DELAY after the first such call, whatever the       *)
(* more severe targets are.                                                *)
(***************************************************************************)
C31_RisesWithinBound ==
  se_aboveStart # None => se_now - Val(se_aboveStart) < 4 * ESCALATE_DELAY

(***************************************************************************)
(* C32: ClusterDetector never counts a device twice.  After update(P) no   *)
(* grid cell belongs to more than one reported cluster, and the counts of  *)
(* the reported clusters sum to at most the number of positions in P.      *)
(***************************************************************************)
RECURSIVE ClusterTotal(_)
ClusterTotal(clusters) ==
  IF clusters = << >> THEN 0
  ELSE clusters[1].count + ClusterTotal(Tail(clusters))

C32_NoDoubleCounting ==
  /\ \A cell \in Cells :
       Cardinality({i \in 1..Len(cd_clusters) : cell \in cd_clusters[i].cells}) <= 1
  /\ ClusterTotal(cd_clusters) <= Len(cd_positions)

(***************************************************************************)
(* C33: AlertManager suppression is side-effect free.  A trigger_alert     *)
(* call that the cooldown or the rate limit suppresses returns False, adds *)
(* one to suppressed_alerts, leaves alert_history, total_alerts,           *)
(* last_alert_time and alerts_this_minute as they were, and uses no        *)
(* channel and calls no handler.                                           *)
(***************************************************************************)
C33_SuppressionNoSideEffect ==
  [][(/\ am_calls' = am_calls + 1
      /\ \/ EmittedWithin("type", am_lastType', am_now')
         \/ ~RateAllows(am_now')) =>
       /\ am_result' = "False"
       /\ am_suppressed_alerts' = am_suppressed_alerts + 1
       /\ UNCHANGED <<am_alert_history, am_total_alerts, am_last_alert_time,
                      am_alerts_this_minute, am_handlers, am_config>>
       /\ am_dispatch' = NoDispatch]_vars

\* C33 witness: with a handler registered, the second call came later than the
\* first, within the cooldown of its alert_type, and was suppressed; the
\* cooldown still runs from the first call.
C33_Witness ==
  /\ am_calls = 2 /\ am_result = "False"
  /\ Len(am_handlers) >= 1
  /\ am_suppressed_alerts = 1 /\ am_total_alerts = 1
  /\ Len(am_emitted) = 1 /\ am_emitted[1].type = am_lastType
  /\ am_now > am_emitted[1].timestamp
  /\ am_last_alert_time[am_lastType] = am_emitted[1].timestamp
  /\ am_dispatch = NoDispatch

(***************************************************************************)
(* C34: AlertManager accounting.  total_alerts + suppressed_alerts equals  *)
(* the number of trigger_alert calls since construction or the last        *)
(* reset(); each call adds one to exactly one of the two counters, and     *)
(* returns True exactly when it added to total_alerts.                     *)
(***************************************************************************)
C34_Accounting ==
  /\ [](am_total_alerts + am_suppressed_alerts = am_sinceReset)
  /\ [][am_calls' = am_calls + 1 =>
          /\ \/ /\ am_total_alerts' = am_total_alerts + 1
                /\ am_suppressed_alerts' = am_suppressed_alerts
             \/ /\ am_total_alerts' = am_total_alerts
                /\ am_suppressed_alerts' = am_suppressed_alerts + 1
          /\ am_result' = "True" <=> am_total_alerts' = am_total_alerts + 1
          /\ am_result' \in {"True", "False"}]_vars

\* C34 witness: one call before a reset(), then an emitted and a suppressed call
C34_Witness ==
  /\ am_calls = 3 /\ am_resets = 1 /\ am_sinceReset = 2
  /\ am_total_alerts = 1 /\ am_suppressed_alerts = 1
  /\ am_result = "False"

(***************************************************************************)
(* C35: PassageDetector approach accounting.  After any readings since     *)
(* construction or reset(), total_approaches = passage_count +             *)
(* false_approaches + (1 if the state is APPROACH, else 0); a reading that *)
(* leaves APPROACH adds one to exactly one of passage_count and            *)
(* false_approaches, and no other reading changes either.                  *)
(***************************************************************************)
C35_ApproachAccounting ==
  /\ [](pd_total_approaches =
          pd_passage_count + pd_false_approaches
            + (IF pd_state = "APPROACH" THEN 1 ELSE 0))
  /\ [][pd_resets' = pd_resets =>
          IF pd_state = "APPROACH" /\ pd_state' # "APPROACH"
          THEN \/ /\ pd_passage_count' = pd_passage_count + 1
                  /\ pd_false_approaches' = pd_false_approaches
               \/ /\ pd_passage_count' = pd_passage_count
                  /\ pd_false_approaches' = pd_false_approaches + 1
          ELSE /\ pd_passage_count' = pd_passage_count
               /\ pd_false_approaches' = pd_false_approaches]_vars

\* C35 witness: after a reset() that wiped an approach, one approach ended as
\* a false approach and another is under way
C35_Witness ==
  /\ pd_resets = 1 /\ pd_wiped = 1 /\ pd_state = "APPROACH"
  /\ pd_total_approaches = 2 /\ pd_false_approaches = 1 /\ pd_passage_count = 0

(***************************************************************************)
(* C36: DeviceTracker monotonicity.  An update_scan that raises the count  *)
(* of one active node, the set of active nodes and all other counts        *)
(* staying as they were, does not lower get_device_count().                *)
(***************************************************************************)
C36_RaisingNeverLowers ==
  [][(/\ DOMAIN dt_node_data' = DOMAIN dt_node_data
      /\ get_active_nodes(dt_node_data', dt_now') = ActiveNow
      /\ \E n \in ActiveNow :
           /\ dt_node_data'[n].count > dt_node_data[n].count
           /\ \A o \in DOMAIN dt_node_data \ {n} :
                dt_node_data'[o].count = dt_node_data[o].count) =>
       get_device_count(dt_node_data', dt_now') >= get_device_count(dt_node_data, dt_now)]_vars

(***************************************************************************)
(* C37: the sound component of the SurgeEngine is monotone.  For the sound *)
(* level s2 that node C reported in the last call and every lower level    *)
(* s1, all other inputs equal, the sound_level component for s1 is not     *)
(* above the one for s2.                                                   *)
(***************************************************************************)
C37_SoundMonotone ==
  ("C" \in DOMAIN se_last_data /\ "sound" \in DOMAIN se_last_data["C"]) =>
    \A s1 \in SE_WideSounds :
      s1 <= se_last_data["C"].sound =>
        calculate_components([se_last_data EXCEPT !["C"].sound = s1]).sound_level
          <= se_component_risks.sound_level

(***************************************************************************)
(* C38: DeviceTracker position synthesis conserves devices.  After a call  *)
(* of get_estimated_positions made with at least one node active, the zone *)
(* counts are all non-negative and sum to get_device_count(), and the      *)
(* positions returned are that many, each inside the room.                 *)
(***************************************************************************)
C38_PositionsConserveDevices ==
  (dt_lastCall = "get_estimated_positions" /\ ActiveNow # {}) =>
    /\ \A z \in DOMAIN dt_zone_counts : dt_zone_counts[z] >= 0
    /\ dt_zone_counts["A"] + dt_zone_counts["B"] + dt_zone_counts["C"]
         + dt_zone_counts["center"] = get_device_count(dt_node_data, dt_now)
    /\ Len(dt_positions) = get_device_count(dt_node_data, dt_now)
    /\ \A i \in 1..Len(dt_positions) :
         /\ dt_positions[i][1] >= 0 /\ dt_positions[i][1] <= DT_ROOM_WIDTH
         /\ dt_positions[i][2] >= 0 /\ dt_positions[i][2] <= DT_ROOM_HEIGHT

\* C38 witness: nodes A and B active with counts 10 and 5 and a node D outside
\* the zones: 18 devices, 5 and 2 in the zones of A and B, the rest in the center
C38_Witness ==
  /\ dt_lastCall = "get_estimated_positions"
  /\ ActiveNow = {"A", "B", "D"}
  /\ dt_node_data["A"].count = 10 /\ dt_node_data["B"].count = 5
  /\ dt_node_data["D"].count = 5
  /\ dt_zone_counts = [A |-> 5, B |-> 2, C |-> 0, center |-> 11]
  /\ Len(dt_positions) = 18

(***************************************************************************)
(* C39: reset() is equivalent to fresh construction.  Once reset() has     *)
(* been called on a ZoneDetector or a SurgeEngine, the instance and a      *)
(* newly constructed one fed the same readings are in the same state with  *)
(* the same pending state after every reading; and reset() leaves a        *)
(* PassageDetector with every field process_reading reads as __init__      *)
(* sets it, so that the readings that follow are processed from the state  *)
(* of a new instance.                                                      *)
(***************************************************************************)
C39_SameAsFresh ==
  rv_resets > 0 =>
    /\ rv_class = "ZoneDetector" =>
          /\ zd_state = zd2_state
          /\ zd_pending_state = zd2_pending_state
          /\ zd_pending_start_time = zd2_pending_start_time
    /\ rv_class = "SurgeEngine" =>
          /\ se_state = se2_state
          /\ se_pending_state = se2_pending_state
          /\ se_pending_start_time = se2_pending_start_time

\* the reset() step of a PassageDetector
C39_ResetGivesFreshFields ==
  pd_resets' > pd_resets => PassageDetector_fields' = PassageDetector_fresh

\* C39: after reset() the instance behaves as a newly constructed one
C39_ResetEquivalent ==
  [](C39_SameAsFresh) /\ [][C39_ResetGivesFreshFields]_vars

\* C39 witness: a ZoneDetector reset while OCCUPIED with CROWDED pending, which
\* then became CROWDED again, as the newly constructed detector did
C39_Witness ==
  /\ rv_class = "ZoneDetector"
  /\ rv_resets = 1
  /\ rv_wiped = <<"OCCUPIED", "CROWDED">>
  /\ zd_state = "CROWDED"
  /\ zd2_state = "CROWDED"

(***************************************************************************)
(* C40: UDPReceiver shutdown.  Once start() has succeeded and stop() has   *)
(* been called, stop() returns and the listener thread ends, whatever      *)
(* datagrams arrive and whatever the callbacks raise; the listener thread  *)
(* never ends before stop() is called, and a datagram that is malformed or *)
(* has no id leaves latest_data and last_seen_time as they are and the     *)
(* listener alive.                                                         *)
(***************************************************************************)
C40_ListenerEndsOnlyOnStop ==
  ur_thread = "terminated" => (~ur_running /\ ur_s_pc \notin {"init", "ready"})

\* the step that receives a malformed datagram or one without id
C40_BadPacketIgnored ==
  ur_bad' > ur_bad =>
    /\ ur_latest_data' = ur_latest_data
    /\ ur_last_seen_time' = ur_last_seen_time
    /\ ur_thread' = "alive"

\* stop() called after a successful start(), and stop() over with the
\* listener ended
C40_Stopping == ur_started /\ ur_s_pc = "join"
C40_Stopped == ur_s_pc = "stopped" /\ ur_thread = "terminated"

\* C40: stop() returns and the listener ends; bad datagrams change nothing
C40_Shutdown ==
  /\ [](C40_ListenerEndsOnlyOnStop)
  /\ [][C40_BadPacketIgnored]_ur_vars
  /\ (C40_Stopping ~> C40_Stopped)

\* C40 witness: a receiver with a raising callback that has queued a packet,
\* has received a bad datagram, and is stopped with its listener ended and
\* its socket closed
C40_Witness ==
  /\ ur_class = "udp_receiver"
  /\ ur_started
  /\ \E i \in DOMAIN ur_callbacks : ur_callbacks[i] = "raises"
  /\ Len(ur_data_queue) >= 1
  /\ ur_bad >= 1
  /\ ur_s_pc = "stopped"
  /\ ur_thread = "terminated"
  /\ ur_socket = "closed"

=============================================================================
